---- MODULE Spec2Model ----
(***************************************************************************)
(* EVE-NG Link Manager (eve_link_manager.py): the endpoint transition      *)
(* executor, the link coordinator, the flap sequencer and the batch        *)
(* runner, as one state machine.                                           *)
(*                                                                         *)
(* Text is modelled as a sequence of one-character strings ("e0/0" is      *)
(* <<"e","0","/","0">>).  A message (an f-string of the program) is the    *)
(* sequence of its literal fragments and interpolated values, in order.    *)
(***************************************************************************)
EXTENDS Integers, Sequences, FiniteSets, TLC

VARIABLES
    pc,         \* position of the running request ("idle" before it, "done" after it)
    req,        \* the request being served, or the last one served
    link,       \* frame of suspend_eveng_link / resume_eveng_link
    flap,       \* frame of flap_eveng_interface / flap_interface
    batch,      \* frame of process_batch_file
    result,     \* what the last call returned (or that it raised)
    trace,      \* endpoint transitions and delays of the request (of the batch line)
    cmds,       \* every subprocess.run of the request (of the batch line): argv and outcome
    suspended,  \* external lab state: the endpoints <<device, interface>> now suspended
    hostDown    \* host state: the host interfaces now down

vars == <<pc, req, link, flap, batch, result, trace, cmds, suspended, hostDown>>

----------------------------------------------------------------------------
(* Bounds of the model *)

\* largest flap count a request asks for
MaxCount == 2
\* the external command exits with a status in 0..MaxExit, or cannot be launched
MaxExit == 1
\* longest batch file, in lines
MaxLines == 2

\* the largest number of interfaces a provider listing of the resolver holds
MaxListed == 3

----------------------------------------------------------------------------
(* Text and messages *)

Lit(s) == [lit |-> s, val |-> <<>>]
Val(v) == [lit |-> "", val |-> v]

DigitChars == <<"0", "1", "2", "3", "4", "5", "6", "7", "8", "9">>

RECURSIVE IntStr(_)
\* str(n) of an integer
IntStr(n) ==
    IF n < 0 THEN <<"-">> \o IntStr(0 - n)
    ELSE IF n < 10 THEN <<DigitChars[n + 1]>>
    ELSE IntStr(n \div 10) \o <<DigitChars[(n % 10) + 1]>>

\* the lab file the requests are about (--lab)
LabPath == "/opt/unetlab/labs/demo.unl"

\* a delay in seconds (a float with no fraction), as an f-string prints it
DelayStr(delay) == IntStr(delay) \o <<".", "0">>

\* str.lower() on the characters a string of the model can hold (code points below
\* 256): the letters A to Z, and the capital letters of Latin-1 (0xc0 to 0xde but the
\* multiplication sign 0xd7), each lowered to the letter 32 code points on; every
\* other character is left as it is
UpperChars == <<"A", "B", "C", "D", "E", "F", "G", "H", "I", "J", "K", "L", "M",
                "N", "O", "P", "Q", "R", "S", "T", "U", "V", "W", "X", "Y", "Z",
                "À", "Á", "Â", "Ã", "Ä", "Å", "Æ", "Ç", "È", "É",
                "Ê", "Ë", "Ì", "Í", "Î", "Ï", "Ð", "Ñ", "Ò", "Ó",
                "Ô", "Õ", "Ö", "Ø", "Ù", "Ú", "Û", "Ü", "Ý", "Þ">>
LowerChars == <<"a", "b", "c", "d", "e", "f", "g", "h", "i", "j", "k", "l", "m",
                "n", "o", "p", "q", "r", "s", "t", "u", "v", "w", "x", "y", "z",
                "à", "á", "â", "ã", "ä", "å", "æ", "ç", "è", "é",
                "ê", "ë", "ì", "í", "î", "ï", "ð", "ñ", "ò", "ó",
                "ô", "õ", "ö", "ø", "ù", "ú", "û", "ü", "ý", "þ">>

\* the capital letters and what str.lower() makes of each
LowerMap ==
    [c \in {UpperChars[k] : k \in 1..Len(UpperChars)} |->
         LowerChars[CHOOSE k \in 1..Len(UpperChars) : UpperChars[k] = c]]

LowerChar(c) == IF c \in DOMAIN LowerMap THEN LowerMap[c] ELSE c

\* s.lower()
Lower(s) == [k \in 1..Len(s) |-> LowerChar(s[k])]

\* the characters below code point 256 that are digits to str.isdigit() without
\* being one of 0 to 9: the superscripts two, three and one (0xb2, 0xb3, 0xb9)
SuperscriptDigits == {"²", "³", "¹"}

\* the characters str.isdigit() is true for
DigitSet == {DigitChars[k] : k \in 1..Len(DigitChars)} \cup SuperscriptDigits

\* c.isdigit()
IsDigit(c) == c \in DigitSet

\* the characters str.strip() removes, of those a string of the model can hold (code
\* points below 256): tab, line feed, vertical tab, form feed, carriage return, the
\* separators 0x1c to 0x1f, space, next line (0x85) and no-break space (0xa0)
WhitespaceChars ==
    { "\t", "\n", "", "\f", "\r", "", "", "", "", " ", "", " " }

IsSpace(c) == c \in WhitespaceChars

RECURSIVE LStrip(_)
LStrip(s) == IF s # <<>> /\ IsSpace(Head(s)) THEN LStrip(Tail(s)) ELSE s

RECURSIVE RStrip(_)
RStrip(s) ==
    IF s # <<>> /\ IsSpace(s[Len(s)]) THEN RStrip(SubSeq(s, 1, Len(s) - 1)) ELSE s

\* s.strip()
Strip(s) == RStrip(LStrip(s))

\* s.startswith(prefix)
StartsWith(s, prefix) ==
    Len(prefix) <= Len(s) /\ SubSeq(s, 1, Len(prefix)) = prefix

\* sub in s
IsSubstring(sub, s) ==
    \E k \in 0..(Len(s) - Len(sub)) : SubSeq(s, k + 1, k + Len(sub)) = sub

\* sep in s, for a one-character sep
HasChar(s, sep) == \E k \in 1..Len(s) : s[k] = sep

RECURSIVE Split(_, _)
\* s.split(sep) for a one-character sep: always at least one field
Split(s, sep) ==
    IF ~HasChar(s, sep) THEN <<s>>
    ELSE LET k == CHOOSE j \in 1..Len(s) : s[j] = sep /\ \A h \in 1..(j - 1) : s[h] # sep
         IN  <<SubSeq(s, 1, k - 1)>> \o Split(SubSeq(s, k + 1, Len(s)), sep)

\* ''.join([c for c in s if c.isdigit()]) and its complement
DigitsOf(s) == SelectSeq(s, IsDigit)
NonDigitsOf(s) == SelectSeq(s, LAMBDA c : ~IsDigit(c))

----------------------------------------------------------------------------
(* Results *)

NoResult == [status |-> "none", success |-> FALSE, msg |-> <<>>]
Returned(ok, message) == [status |-> "returned", success |-> ok, msg |-> message]
\* an exception that left the function; msg is str(e)
Raised(message) == [status |-> "raised", success |-> FALSE, msg |-> message]

\* How one subprocess.run(..., check=True) ends: the command exits with a status,
\* or it cannot be launched (OSError: sudo not found, a NUL in an argument, ...).
Outcomes ==
    {[raises |-> FALSE, code |-> c] : c \in 0..MaxExit}
        \cup {[raises |-> TRUE, code |-> 0]}

\* str(e) of the subprocess.CalledProcessError of `cmd` exiting with `code`
CalledProcessErrorStr(cmd, code) ==
    <<Lit("Command")>> \o cmd
        \o <<Lit("returned non-zero exit status"), Val(IntStr(code))>>

\* str(e) of the FileNotFoundError of subprocess.run when argv[0] cannot be launched
OSErrorStr(cmd) == <<Lit("[Errno 2] No such file or directory:"), cmd[1]>>

----------------------------------------------------------------------------
(* Endpoint Transition Executor *)

\* argv of the unl_wrapper call for one endpoint
unl_wrapper_cmd(action, device_id, interface_id) ==
    << Lit("sudo"), Lit("/opt/unetlab/wrappers/unl_wrapper"),
       Lit("-a"), Lit(action),
       Lit("-T"), Lit("0"),
       Lit("-I"), Val(interface_id),
       Lit("-D"), Val(device_id),
       Lit("-F"), Lit(LabPath) >>

suspend_dry_run_message_NoMarker(device_id, interface_id, cmd) ==
    << Lit("Would suspend device"), Val(device_id),
       Lit("interface"), Val(interface_id), Lit("with command:") >> \o cmd

\* f"DRY RUN - Would suspend device {device_id} interface {interface_id} with command: {cmd_str}"
suspend_dry_run_message(device_id, interface_id, cmd) ==
    << Lit("DRY RUN"), Lit("- Would suspend device"), Val(device_id),
       Lit("interface"), Val(interface_id), Lit("with command:") >> \o cmd

\* f"DRY RUN - Would resume device {device_id} interface {interface_id} with command: {cmd_str}"
resume_dry_run_message(device_id, interface_id, cmd) ==
    << Lit("DRY RUN"), Lit("- Would resume device"), Val(device_id),
       Lit("interface"), Val(interface_id), Lit("with command:") >> \o cmd

\* The try/except around subprocess.run(cmd, check=True): only
\* subprocess.CalledProcessError is caught, any other exception leaves the function.
run_checked(cmd, out, ok_message, fail_prefix) ==
    IF out.raises THEN Raised(OSErrorStr(cmd))
    ELSE IF out.code = 0 THEN Returned(TRUE, ok_message)
    ELSE Returned(FALSE, fail_prefix \o CalledProcessErrorStr(cmd, out.code))

\* suspend_eveng_interface: the result, and the argv it ran (none in dry-run mode)
suspend_eveng_interface(device_id, interface_id, dry_run, out) ==
    LET cmd == unl_wrapper_cmd("suspendlink", device_id, interface_id) IN
    IF dry_run
    THEN [ res |-> Returned(TRUE, suspend_dry_run_message(device_id, interface_id, cmd)),
           run |-> <<>> ]
    ELSE [ res |-> run_checked(cmd, out,
                       << Lit("Successfully suspended device"), Val(device_id),
                          Lit("interface"), Val(interface_id) >>,
                       << Lit("Failed to suspend EVE-NG interface:") >>),
           run |-> <<cmd>> ]

\* resume built with the suspend action (a copy-paste slip)
resume_eveng_interface_WrongAction(device_id, interface_id, dry_run, out) ==
    LET cmd == unl_wrapper_cmd("suspendlink", device_id, interface_id) IN
    IF dry_run
    THEN [ res |-> Returned(TRUE, resume_dry_run_message(device_id, interface_id, cmd)),
           run |-> <<>> ]
    ELSE [ res |-> run_checked(cmd, out,
                       << Lit("Successfully resumed device"), Val(device_id),
                          Lit("interface"), Val(interface_id) >>,
                       << Lit("Failed to resume EVE-NG interface:") >>),
           run |-> <<cmd>> ]

\* resume_eveng_interface: the result, and the argv it ran (none in dry-run mode)
resume_eveng_interface(device_id, interface_id, dry_run, out) ==
    LET cmd == unl_wrapper_cmd("resumelink", device_id, interface_id) IN
    IF dry_run
    THEN [ res |-> Returned(TRUE, resume_dry_run_message(device_id, interface_id, cmd)),
           run |-> <<>> ]
    ELSE [ res |-> run_checked(cmd, out,
                       << Lit("Successfully resumed device"), Val(device_id),
                          Lit("interface"), Val(interface_id) >>,
                       << Lit("Failed to resume EVE-NG interface:") >>),
           run |-> <<cmd>> ]

\* the executor for `op`
eveng_interface(op, ep, dry_run, out) ==
    IF op = "suspend" THEN suspend_eveng_interface(ep[1], ep[2], dry_run, out)
    ELSE resume_eveng_interface(ep[1], ep[2], dry_run, out)

\* argv of the host command: ip link set <interface_name> down|up
ip_link_cmd(interface_name, updown) ==
    << Lit("sudo"), Lit("ip"), Lit("link"), Lit("set"), Val(interface_name), Lit(updown) >>

\* suspend_interface: bring a host interface down
suspend_interface(interface_name, out) ==
    LET cmd == ip_link_cmd(interface_name, "down") IN
    [ res |-> run_checked(cmd, out,
                  << Lit("Successfully suspended"), Val(interface_name) >>,
                  << Lit("Failed to suspend"), Val(interface_name), Lit(":") >>),
      run |-> <<cmd>> ]

\* resume_interface: bring a host interface up
resume_interface(interface_name, out) ==
    LET cmd == ip_link_cmd(interface_name, "up") IN
    [ res |-> run_checked(cmd, out,
                  << Lit("Successfully resumed"), Val(interface_name) >>,
                  << Lit("Failed to resume"), Val(interface_name), Lit(":") >>),
      run |-> <<cmd>> ]

\* The external transition command, as the lab sees it: exit status 0 means the
\* transition was accepted and the one endpoint named by -D/-I changed state.
unl_wrapper(lab, run, out) ==
    IF run = <<>> \/ out.raises \/ out.code # 0 \/ run[1][2].lit # "/opt/unetlab/wrappers/unl_wrapper"
    THEN lab
    ELSE LET cmd == run[1]
             ep  == <<cmd[10].val, cmd[8].val>>
         IN  IF cmd[4].lit = "suspendlink" THEN lab \cup {ep}
             ELSE IF cmd[4].lit = "resumelink" THEN lab \ {ep}
             ELSE lab

\* The host's ip command: exit status 0 means the interface went down or up.
ip_link(down, run, out) ==
    IF run = <<>> \/ out.raises \/ out.code # 0 \/ run[1][2].lit # "ip"
    THEN down
    ELSE LET cmd == run[1] IN
         IF cmd[6].lit = "down" THEN down \cup {cmd[5].val} ELSE down \ {cmd[5].val}

\* the entries of cmds for the argv's `run`, each with how the command ended
Ran(run, out) == [k \in 1..Len(run) |-> [argv |-> run[k], out |-> out]]

\* one entry of the trace: a transition with its result, or a delay
Transition(kind, target, dry_run, res) ==
    [ev |-> kind, target |-> target, dry |-> dry_run, res |-> res]
Sleep == [ev |-> "sleep", target |-> <<>>, dry |-> FALSE, res |-> NoResult]

\* time.sleep(delay): returns, or raises ValueError for a negative delay
time_sleep(delay) ==
    IF delay < 0 THEN Raised(<<Lit("sleep length must be non-negative")>>) ELSE NoResult

----------------------------------------------------------------------------
(* Requests and frames *)

\* the endpoints (device ID, interface ID) a request may name
Endpoints == { << <<"1">>, <<"0">> >>, << <<"2">>, <<"0">> >> }

\* the host interfaces a request may name
HostInterfaces == { <<"v", "0">> }

\* default of --delay (1.0)
DefaultDelay == 1

\* the delays main may pass (--delay is any float): the default, and a negative one
DelayValues == {DefaultDelay, 0 - 1}

Req(kind, op, dry_run, count, targets) ==
    [kind |-> kind, op |-> op, dry |-> dry_run, count |-> count, delay |-> DefaultDelay,
     targets |-> targets]

NoReq == Req("none", "", FALSE, 0, <<>>)

NoLink ==
    [op |-> "", ep1 |-> <<>>, ep2 |-> <<>>, dry |-> FALSE, r1 |-> NoResult,
     ret |-> "", exc |-> ""]

NoFlap ==
    [kind |-> "", target |-> <<>>, count |-> 0, delay |-> 0, dry |-> FALSE, i |-> 0,
     ret |-> "", exc |-> ""]

----------------------------------------------------------------------------
(* Link Transition Coordinator *)

\* the if/elif/else that ends suspend_eveng_link
suspend_eveng_link_return(ep1, ep2, r1, r2) ==
    IF r1.success /\ r2.success
    THEN Returned(TRUE,
             << Lit("Successfully suspended link between device"), Val(ep1[1]),
                Lit("interface"), Val(ep1[2]), Lit("and device"), Val(ep2[1]),
                Lit("interface"), Val(ep2[2]) >>)
    ELSE IF ~r1.success
    THEN Returned(FALSE, <<Lit("Failed to suspend first side of link:")>> \o r1.msg)
    ELSE Returned(FALSE, <<Lit("Failed to suspend second side of link:")>> \o r2.msg)

resume_eveng_link_return_FirstSideOnly(ep1, ep2, r1, r2) ==
    IF r1.success
    THEN Returned(TRUE,
             << Lit("Successfully resumed link between device"), Val(ep1[1]),
                Lit("interface"), Val(ep1[2]), Lit("and device"), Val(ep2[1]),
                Lit("interface"), Val(ep2[2]) >>)
    ELSE Returned(FALSE, <<Lit("Failed to resume first side of link:")>> \o r1.msg)

\* the if/elif/else that ends resume_eveng_link
resume_eveng_link_return(ep1, ep2, r1, r2) ==
    IF r1.success /\ r2.success
    THEN Returned(TRUE,
             << Lit("Successfully resumed link between device"), Val(ep1[1]),
                Lit("interface"), Val(ep1[2]), Lit("and device"), Val(ep2[1]),
                Lit("interface"), Val(ep2[2]) >>)
    ELSE IF ~r1.success
    THEN Returned(FALSE, <<Lit("Failed to resume first side of link:")>> \o r1.msg)
    ELSE Returned(FALSE, <<Lit("Failed to resume second side of link:")>> \o r2.msg)

eveng_link_return(op, ep1, ep2, r1, r2) ==
    IF op = "suspend" THEN suspend_eveng_link_return(ep1, ep2, r1, r2)
    ELSE resume_eveng_link_return(ep1, ep2, r1, r2)

\* the frame of a link call that returns to `ret`, or to `exc` when it raises
LinkFrame(op, ep1, ep2, dry_run, ret, exc) ==
    [op |-> op, ep1 |-> ep1, ep2 |-> ep2, dry |-> dry_run, r1 |-> NoResult,
     ret |-> ret, exc |-> exc]

\* main: suspend/resume --device-id --interface-id (one endpoint, one call)
CallInterface(op, ep, dry_run, out) ==
    /\ pc = "idle"
    /\ LET r == eveng_interface(op, ep, dry_run, out) IN
       /\ req' = Req("interface", op, dry_run, 0, <<ep>>)
       /\ result' = r.res
       /\ trace' = <<Transition(op, ep, dry_run, r.res)>>
       /\ cmds' = Ran(r.run, out)
       /\ suspended' = unl_wrapper(suspended, r.run, out)
    /\ pc' = "done"
    /\ UNCHANGED <<link, flap, batch, hostDown>>

\* main: suspend/resume --interface (suspend_interface / resume_interface on a host
\* interface; they are not given dry_run, so --dry-run has no effect)
CallHostInterface(op, interface_name, dry_run, out) ==
    /\ pc = "idle"
    /\ LET r == IF op = "suspend" THEN suspend_interface(interface_name, out)
                ELSE resume_interface(interface_name, out)
       IN  /\ req' = Req("hostinterface", op, dry_run, 0, << <<interface_name>> >>)
           /\ result' = r.res
           /\ trace' = <<Transition(op, <<interface_name>>, FALSE, r.res)>>
           /\ cmds' = Ran(r.run, out)
           /\ hostDown' = ip_link(hostDown, r.run, out)
    /\ pc' = "done"
    /\ UNCHANGED <<link, flap, batch, suspended>>

\* main: suspend, resume or flap with neither --lab nor EVE_LAB: the test of the lab
\* path reads args.use_eveng_api, which no parser defines
CallWithoutLab(command) ==
    /\ pc = "idle"
    /\ req' = Req("nolab", command, FALSE, 0, <<>>)
    /\ result' = Raised(<<Lit("'Namespace' object has no attribute 'use_eveng_api'")>>)
    /\ trace' = <<>>
    /\ cmds' = <<>>
    /\ pc' = "done"
    /\ UNCHANGED <<link, flap, batch, suspended, hostDown>>

\* main: suspend/resume --device1-id ... --interface2-id
CallLink(op, ep1, ep2, dry_run) ==
    /\ pc = "idle"
    /\ req' = Req("link", op, dry_run, 0, <<ep1, ep2>>)
    /\ link' = LinkFrame(op, ep1, ep2, dry_run, "done", "done")
    /\ result' = NoResult
    /\ trace' = <<>>
    /\ cmds' = <<>>
    /\ pc' = "link_first"
    /\ UNCHANGED <<flap, batch, suspended, hostDown>>

\* first side of the link
LinkFirst(out) ==
    /\ pc = "link_first"
    /\ LET r == eveng_interface(link.op, link.ep1, link.dry, out) IN
       /\ trace' = Append(trace, Transition(link.op, link.ep1, link.dry, r.res))
       /\ cmds' = cmds \o Ran(r.run, out)
       /\ suspended' = unl_wrapper(suspended, r.run, out)
       /\ IF r.res.status = "raised"
          THEN /\ result' = r.res
               /\ pc' = link.exc
               /\ link' = NoLink
          ELSE /\ link' = [link EXCEPT !.r1 = r.res]
               /\ pc' = "link_second"
               /\ UNCHANGED result
    /\ UNCHANGED <<req, flap, batch, hostDown>>

\* second side of the link, then the combined result
LinkSecond(out) ==
    /\ pc = "link_second"
    /\ LET r == eveng_interface(link.op, link.ep2, link.dry, out) IN
       /\ trace' = Append(trace, Transition(link.op, link.ep2, link.dry, r.res))
       /\ cmds' = cmds \o Ran(r.run, out)
       /\ suspended' = unl_wrapper(suspended, r.run, out)
       /\ IF r.res.status = "raised"
          THEN /\ result' = r.res
               /\ pc' = link.exc
          ELSE /\ result' = eveng_link_return(link.op, link.ep1, link.ep2, link.r1, r.res)
               /\ pc' = link.ret
    /\ link' = NoLink
    /\ UNCHANGED <<req, flap, batch, hostDown>>

----------------------------------------------------------------------------
(* Flap Sequencer: flap_eveng_interface (kind "eveng") and flap_interface (kind "host") *)

flap_step_SuspendOnly(op, kind, target, dry_run, out) ==
    IF kind = "host" THEN suspend_interface(target[1], out)
    ELSE eveng_interface("suspend", target, dry_run, out)

\* one step of a flap: the executor of the target's kind
flap_step(op, kind, target, dry_run, out) ==
    IF kind = "host"
    THEN IF op = "suspend" THEN suspend_interface(target[1], out)
         ELSE resume_interface(target[1], out)
    ELSE eveng_interface(op, target, dry_run, out)

flap_range_Never(i, count) == FALSE

flap_range_AtLeastOnce(i, count) == i = 0 \/ i < count

\* for i in range(count)
flap_range(i, count) == i < count

flap_sleeps_after_resume_Always(i, count) == i < count

flap_sleeps_after_resume_Never(i, count) == FALSE

\* if i < count - 1:  # Don't sleep after the last iteration
flap_sleeps_after_resume(i, count) == i < count - 1

flap_failure_ReturnsTrue(kind, target, step, message) ==
    Returned(TRUE, << Lit("Failed to flap"), Val(target[1]) >> \o message)

\* the return of a failed step ("suspend" or "resume")
flap_failure(kind, target, step, message) ==
    IF kind = "host"
    THEN Returned(FALSE,
             << Lit("Failed to flap"), Val(target[1]),
                Lit(IF step = "suspend" THEN "(suspend failed)" ELSE "(resume failed)") >>)
    ELSE Returned(FALSE,
             << Lit("Failed to flap device"), Val(target[1]), Lit("interface"), Val(target[2]),
                Lit(IF step = "suspend" THEN "(suspend failed):" ELSE "(resume failed):") >>
             \o message)

\* the return after the loop
flap_success(kind, target, count, delay, dry_run) ==
    IF kind = "host"
    THEN Returned(TRUE,
             << Lit("Successfully flapped"), Val(target[1]), Val(IntStr(count)), Lit("times") >>)
    ELSE Returned(TRUE,
             (IF dry_run THEN << Lit("DRY RUN"), Lit("- Would flap device") >>
              ELSE << Lit("Successfully flapped device") >>)
             \o << Val(target[1]), Lit("interface"), Val(target[2]), Val(IntStr(count)),
                   Lit("times with"), Val(DelayStr(delay)), Lit("s delay") >>)

\* the frame of a flap call that returns to `ret`, or to `exc` when it raises
FlapFrame(kind, target, count, delay, dry_run, ret, exc) ==
    [kind |-> kind, target |-> target, count |-> count, delay |-> delay, dry |-> dry_run,
     i |-> 0, ret |-> ret, exc |-> exc]

\* the flap counts main may pass (--count is any integer)
Counts == (0 - 1)..MaxCount

\* main: flap --device-id --interface-id (flap_eveng_interface), or flap --interface
\* (flap_interface, which is not given dry_run: --dry-run has no effect on it)
CallFlap(kind, target, count, delay, dry_run) ==
    /\ pc = "idle"
    /\ req' = [Req(IF kind = "host" THEN "hostflap" ELSE "flap", "flap", dry_run, count,
                   <<target>>) EXCEPT !.delay = delay]
    /\ flap' = FlapFrame(kind, target, count, delay, kind # "host" /\ dry_run, "done", "done")
    /\ result' = NoResult
    /\ trace' = <<>>
    /\ cmds' = <<>>
    /\ pc' = "flap_loop"
    /\ UNCHANGED <<link, batch, suspended, hostDown>>

\* the head of the loop, and the return after it
FlapLoop ==
    /\ pc = "flap_loop"
    /\ IF flap_range(flap.i, flap.count)
       THEN /\ pc' = "flap_suspend"
            /\ UNCHANGED <<flap, result>>
       ELSE /\ result' = flap_success(flap.kind, flap.target, flap.count, flap.delay, flap.dry)
            /\ pc' = flap.ret
            /\ flap' = NoFlap
    /\ UNCHANGED <<req, link, batch, trace, cmds, suspended, hostDown>>

\* suspend step; a failure ends the flap
FlapSuspend(out) ==
    /\ pc = "flap_suspend"
    /\ LET r == flap_step("suspend", flap.kind, flap.target, flap.dry, out) IN
       /\ trace' = Append(trace, Transition("suspend", flap.target, flap.dry, r.res))
       /\ cmds' = cmds \o Ran(r.run, out)
       /\ suspended' = unl_wrapper(suspended, r.run, out)
       /\ hostDown' = ip_link(hostDown, r.run, out)
       /\ IF r.res.status = "raised"
          THEN /\ result' = r.res
               /\ pc' = flap.exc
               /\ flap' = NoFlap
          ELSE IF ~r.res.success
          THEN /\ result' = flap_failure(flap.kind, flap.target, "suspend", r.res.msg)
               /\ pc' = flap.ret
               /\ flap' = NoFlap
          ELSE /\ pc' = "flap_sleep_mid"
               /\ UNCHANGED <<flap, result>>
    /\ UNCHANGED <<req, link, batch>>

\* time.sleep(delay) between the suspend and the resume
FlapSleepMid ==
    /\ pc = "flap_sleep_mid"
    /\ LET r == time_sleep(flap.delay) IN
       /\ trace' = Append(trace, [Sleep EXCEPT !.res = r])
       /\ IF r.status = "raised"
          THEN /\ result' = r
               /\ pc' = flap.exc
               /\ flap' = NoFlap
          ELSE /\ pc' = "flap_resume"
               /\ UNCHANGED <<flap, result>>
    /\ UNCHANGED <<req, link, batch, cmds, suspended, hostDown>>

\* resume step; a failure ends the flap
FlapResume(out) ==
    /\ pc = "flap_resume"
    /\ LET r == flap_step("resume", flap.kind, flap.target, flap.dry, out) IN
       /\ trace' = Append(trace, Transition("resume", flap.target, flap.dry, r.res))
       /\ cmds' = cmds \o Ran(r.run, out)
       /\ suspended' = unl_wrapper(suspended, r.run, out)
       /\ hostDown' = ip_link(hostDown, r.run, out)
       /\ IF r.res.status = "raised"
          THEN /\ result' = r.res
               /\ pc' = flap.exc
               /\ flap' = NoFlap
          ELSE IF ~r.res.success
          THEN /\ result' = flap_failure(flap.kind, flap.target, "resume", r.res.msg)
               /\ pc' = flap.ret
               /\ flap' = NoFlap
          ELSE IF flap_sleeps_after_resume(flap.i, flap.count)
          THEN /\ pc' = "flap_sleep_between"
               /\ UNCHANGED <<flap, result>>
          ELSE /\ pc' = "flap_loop"
               /\ flap' = [flap EXCEPT !.i = flap.i + 1]
               /\ UNCHANGED result
    /\ UNCHANGED <<req, link, batch>>

\* time.sleep(delay) before the next cycle
FlapSleepBetween ==
    /\ pc = "flap_sleep_between"
    /\ LET r == time_sleep(flap.delay) IN
       /\ trace' = Append(trace, [Sleep EXCEPT !.res = r])
       /\ IF r.status = "raised"
          THEN /\ result' = r
               /\ pc' = flap.exc
               /\ flap' = NoFlap
          ELSE /\ flap' = [flap EXCEPT !.i = flap.i + 1]
               /\ pc' = "flap_loop"
               /\ UNCHANGED result
    /\ UNCHANGED <<req, link, batch, cmds, suspended, hostDown>>

----------------------------------------------------------------------------
(* Identifier Resolver *)

\* Python's None, as a text no name or ID can be
None == <<"None">>

Falsy_Never(x) == FALSE

\* not x, for a text or None
Falsy(x) == x = None \/ x = <<>>

\* A response of the lab-management API: the call raises, or returns a status and
\* data. The data of list_nodes is the nodes in the order the provider lists them,
\* each [id, name]; the data of get_node_interfaces is the type buckets, each
\* [type, ifs], ifs being the interfaces in the provider's order, each [id, name].
ApiRaises == [raises |-> TRUE, status |-> "", data |-> <<>>]
ApiFails == [raises |-> FALSE, status |-> "fail", data |-> <<>>]
ApiSuccess(data) == [raises |-> FALSE, status |-> "success", data |-> data]

get_device_id_by_name_CaseSensitive(nodes_response, device_name) ==
    IF nodes_response.raises THEN None
    ELSE IF nodes_response.status # "success" THEN None
    ELSE LET nodes == nodes_response.data
             hits == {k \in 1..Len(nodes) : nodes[k].name = device_name}
         IN  IF hits = {} THEN None
             ELSE nodes[CHOOSE k \in hits : \A h \in hits : k <= h].id

\* get_device_id_by_name: the first listed node whose name matches, or None
get_device_id_by_name(nodes_response, device_name) ==
    IF nodes_response.raises THEN None
    ELSE IF nodes_response.status # "success" THEN None
    ELSE LET nodes == nodes_response.data
             hits == {k \in 1..Len(nodes) : Lower(nodes[k].name) = Lower(device_name)}
         IN  IF hits = {} THEN None
             ELSE nodes[CHOOSE k \in hits : \A h \in hits : k <= h].id

\* position of the first digit of s, 0 when it has none
FirstDigit(s) ==
    IF \E k \in 1..Len(s) : IsDigit(s[k])
    THEN CHOOSE k \in 1..Len(s) : IsDigit(s[k]) /\ \A h \in 1..(k - 1) : ~IsDigit(s[h])
    ELSE 0

\* the type token of an interface name (interface_type)
interface_type_of(interface_name) ==
    IF HasChar(interface_name, "/")
    THEN NonDigitsOf(Split(Lower(interface_name), "/")[1])
    ELSE LET i == FirstDigit(Lower(interface_name)) IN
         IF i = 0 THEN <<>> ELSE Lower(SubSeq(interface_name, 1, i - 1))

\* the number token of an interface name (interface_number)
interface_number_of(interface_name) ==
    IF HasChar(interface_name, "/")
    THEN LET parts == Split(Lower(interface_name), "/")
             type_number == DigitsOf(parts[1])
         IN  IF type_number # <<>> THEN type_number \o <<"/">> \o parts[2] ELSE parts[2]
    ELSE LET i == FirstDigit(Lower(interface_name)) IN
         IF i = 0 THEN <<>> ELSE SubSeq(interface_name, i, Len(interface_name))

EthernetAliases ==
    { <<"e">>, <<"e", "t", "h">>, <<"e", "t", "h", "e", "r", "n", "e", "t">>,
      <<"g", "i">>, <<"f", "a">>, <<"g">>,
      <<"g", "i", "g", "a", "b", "i", "t", "e", "t", "h", "e", "r", "n", "e", "t">>,
      <<"f", "a", "s", "t", "e", "t", "h", "e", "r", "n", "e", "t">> }

SerialAliases == { <<"s">>, <<"s", "e", "r", "i", "a", "l">> }

eve_type_of_AlwaysEthernet(interface_type) == "ethernet"

\* eve_types.get(interface_type, 'ethernet')
eve_type_of(interface_type) ==
    IF interface_type \in EthernetAliases THEN "ethernet"
    ELSE IF interface_type \in SerialAliases THEN "serial"
    ELSE "ethernet"

\* the last number of interface_number
last_part_of(interface_number) ==
    IF HasChar(interface_number, "/")
    THEN LET parts == Split(interface_number, "/") IN parts[Len(parts)]
    ELSE interface_number

matches_id_Never(entry, last_part) == FALSE

\* the three tests made on one listed interface, in the order of the code
matches_id(entry, last_part) == entry.id = last_part
matches_name(entry, interface_name) == Lower(entry.name) = Lower(interface_name)
matches_partial(entry, interface_name) == IsSubstring(Lower(interface_name), Lower(entry.name))

\* get_interface_id_by_name: the first listed interface of the type bucket that
\* passes one of the three tests, or None
get_interface_id_by_name(interfaces_response, interface_name) ==
    IF interfaces_response.raises THEN None
    ELSE IF interfaces_response.status # "success" THEN None
    ELSE LET interfaces == interfaces_response.data
             eve_type == eve_type_of(interface_type_of(interface_name))
             last_part == last_part_of(interface_number_of(interface_name))
             buckets == {b \in 1..Len(interfaces) : interfaces[b].type = eve_type}
         IN  IF buckets = {} THEN None
             ELSE LET ifs == interfaces[CHOOSE b \in buckets : TRUE].ifs
                      hits == {k \in 1..Len(ifs) :
                                  \/ matches_id(ifs[k], last_part)
                                  \/ matches_name(ifs[k], interface_name)
                                  \/ matches_partial(ifs[k], interface_name)}
                  IN  IF hits = {} THEN None
                      ELSE ifs[CHOOSE k \in hits : \A h \in hits : k <= h].id

\* the ids the two lookups of a request by name return, None for a name not found;
\* the interface is not looked up on a device that was not found
by_name_lookup(nodes_response, interfaces_response, device_name, interface_name) ==
    LET device_id == get_device_id_by_name(nodes_response, device_name) IN
    IF Falsy(device_id) THEN <<device_id>>
    ELSE <<device_id, get_interface_id_by_name(interfaces_response, interface_name)>>

----------------------------------------------------------------------------
(* Batch Runner: process_batch_file *)

\* The lab the batch run looks names up in: two routers, each with one ethernet
\* interface whose local ID is "0".
LabNodes ==
    << [id |-> <<"1">>, name |-> <<"R", "1">>],
       [id |-> <<"2">>, name |-> <<"R", "2">>] >>

LabInterfaces ==
    << [type |-> "ethernet",
        ifs |-> << [id |-> <<"0">>, name |-> <<"e", "0", "/", "0">>] >>] >>

NodesResponses == {ApiSuccess(LabNodes), ApiFails, ApiRaises}
InterfacesResponses == {ApiSuccess(LabInterfaces), ApiFails, ApiRaises}

\* The lines a batch file is made of (without the line terminator).
LinkLine == <<"1", ",", "0", ",", "2", ",", "0">>
CommentLine == <<"#", "x">>
BlankLine == <<" ", "\f">>
NameLine == <<"R", "1", ",", "e", "0", "/", "0">>
UnknownDeviceLine == <<"R", "9", ",", "e", "0", "/", "0">>
UnknownInterfaceLine == <<"r", "2", ",", "s", "1">>
ThreeFieldLine == <<"1", ",", "0", ",", "2">>
EmptyInterfaceLine == <<"R", "1", ",">>

BatchLines ==
    { LinkLine, CommentLine, BlankLine, NameLine, UnknownDeviceLine,
      UnknownInterfaceLine, ThreeFieldLine, EmptyInterfaceLine }

Operations == {"suspend", "resume", "flap"}

\* a session of the lab-management API is named by the login that opened it
NoClient == 0

connect_to_eveng_GoesOn(logins, auth_ok) ==
    [logins |-> logins + 1, cli |-> IF auth_ok THEN logins + 1 ELSE NoClient, exits |-> FALSE]

\* connect_to_eveng: one login; the session it opened, or sys.exit(1) when any step
\* of the login raises
connect_to_eveng(logins, auth_ok) ==
    [logins |-> logins + 1, cli |-> IF auth_ok THEN logins + 1 ELSE NoClient, exits |-> ~auth_ok]

\* a call of the lab-management API and the session it is made on
ApiCall(call, cli) == [call |-> call, cli |-> cli]

NoBatch ==
    [ state |-> "none", operation |-> "", dry |-> FALSE, count |-> 0, delay |-> 0,
      lineno |-> 0, line |-> <<>>, parts |-> <<>>,
      success_count |-> 0, failure_count |-> 0,
      printed |-> <<>>, result1 |-> NoResult, ep |-> <<>>,
      api |-> <<>>, logins |-> 0, eve_client |-> NoClient, eligible |-> 0,
      main_return |-> [none |-> TRUE, value |-> 0], exit_status |-> 0 ]

\* line = line.strip(), of a line as the file iterator yields it
stripped_line(raw) == Strip(raw \o <<"\n">>)

is_skipped_BlankOnly(line) == line = <<>>

\* if not line or line.startswith('#'): continue
is_skipped(line) == line = <<>> \/ StartsWith(line, <<"#">>)

\* a line of the file that is neither blank nor a comment
IsRequestLine(raw) ==
    /\ \E k \in 1..Len(raw) : ~IsSpace(raw[k])
    /\ LStrip(raw)[1] # "#"

\* print(f"Line {i}: ... (for {line})")
line_report_ZeroBased(i, body, line) ==
    << Lit("Line"), Val(IntStr(i - 1)), Lit(":") >> \o body \o << Lit("(for"), Val(line), Lit(")") >>

line_report(i, body, line) ==
    << Lit("Line"), Val(IntStr(i)), Lit(":") >> \o body \o << Lit("(for"), Val(line), Lit(")") >>

report_success(i, message, line) == line_report(i, message, line)
report_failure(i, message, line) == line_report(i, <<Lit("Failed -")>> \o message, line)
report_no_device(i, device_name, line) ==
    line_report(i, << Lit("Failed to find device named"), Val(device_name) >>, line)
report_no_interface(i, interface_name, device_name, line) ==
    line_report(i, << Lit("Failed to find interface named"), Val(interface_name),
                      Lit("on device"), Val(device_name) >>, line)
report_invalid(i, n, line) ==
    line_report(i, << Lit("Invalid format - expected 2 or 4 comma-separated values, got"),
                      Val(IntStr(n)) >>, line)
report_error(i, message, line) ==
    line_report(i, <<Lit("Error processing line:")>> \o message, line)

\* the frame when line `raw` is taken up as request number lineno + 1
begin_line(b, raw) ==
    [ b EXCEPT !.lineno = b.lineno + 1,
               !.line = stripped_line(raw),
               !.parts = Split(stripped_line(raw), ","),
               !.printed = <<>>,
               !.result1 = NoResult,
               !.ep = <<>>,
               !.api = <<>>,
               !.eligible = b.eligible + (IF IsRequestLine(raw) THEN 1 ELSE 0) ]

line_failed_NoCount(b, report) == [b EXCEPT !.printed = Append(b.printed, report)]

line_failed_Twice(b, report) ==
    [ b EXCEPT !.failure_count = b.failure_count + 2,
               !.printed = Append(b.printed, report) ]

\* the frame after a line failed without a transition
line_failed_AsSuccess(b, report) ==
    [ b EXCEPT !.success_count = b.success_count + 1,
               !.printed = Append(b.printed, report) ]

line_failed(b, report) ==
    [ b EXCEPT !.failure_count = b.failure_count + 1,
               !.printed = Append(b.printed, report) ]

\* a Python value that is None or an integer
PyNone == [none |-> TRUE, value |-> 0]
PyInt(n) == [none |-> FALSE, value |-> n]

\* main, after the summary: if failure_count > 0: return 1 (and None otherwise)
main_return(failure_count) == IF failure_count > 0 THEN PyInt(1) ELSE PyNone

\* sys.exit(1) of connect_to_eveng when the login fails
login_failure_status == 1

\* if __name__ == "__main__": main() -- the value main returns is dropped, and the
\* interpreter ends with status 0
process_exit_status(returned) == 0

batch_rejected_MissingFileOnly(exists, operation) == ~exists

\* if not os.path.exists(filename): return 0, 0
\* if operation not in ['suspend', 'resume', 'flap']: return 0, 0
batch_rejected(exists, operation) == ~exists \/ operation \notin Operations

\* the exit status of the parser's error for an --operation that is not one of the
\* choices
argparse_error_status == 2

\* process_batch_file, up to the loop: the checks of the file and of the operation, and
\* the login
enter_batch(exists, operation, dry_run, count, delay, auth_ok, from_main) ==
    IF batch_rejected(exists, operation)
    THEN /\ batch' = IF from_main
                     THEN [NoBatch EXCEPT !.state = "returned",
                                          !.main_return = main_return(0),
                                          !.exit_status =
                                              process_exit_status(main_return(0))]
                     ELSE [NoBatch EXCEPT !.state = "returned"]
         /\ pc' = "done"
    ELSE LET c == connect_to_eveng(NoBatch.logins, auth_ok) IN
         IF c.exits
         THEN /\ batch' = [NoBatch EXCEPT !.state = "exit", !.logins = c.logins,
                                          !.exit_status = login_failure_status]
              /\ pc' = "done"
         ELSE /\ batch' = [NoBatch EXCEPT !.state = "running", !.operation = operation,
                                          !.dry = dry_run, !.count = count,
                                          !.delay = delay,
                                          !.logins = c.logins, !.eve_client = c.cli]
              /\ pc' = "batch_line"

\* main: batch --operation --file --lab [--count] [--delay] [--dry-run]; the parser
\* ends the process for an operation that is not one of its choices, and
\* process_batch_file is called otherwise
CallBatch(exists, operation, dry_run, count, delay, auth_ok) ==
    /\ pc = "idle"
    /\ req' = [Req("batch", operation, dry_run, count, <<exists>>) EXCEPT !.delay = delay]
    /\ result' = NoResult
    /\ trace' = <<>>
    /\ cmds' = <<>>
    /\ IF operation \notin Operations
       THEN /\ batch' = [NoBatch EXCEPT !.state = "usage",
                                        !.exit_status = argparse_error_status]
            /\ pc' = "done"
       ELSE enter_batch(exists, operation, dry_run, count, delay, auth_ok, TRUE)
    /\ UNCHANGED <<link, flap, suspended, hostDown>>

\* process_batch_file called by itself, with any operation
CallProcessBatchFile(exists, operation, dry_run, count, delay, auth_ok) ==
    /\ pc = "idle"
    /\ req' = [Req("process_batch_file", operation, dry_run, count, <<exists>>)
                  EXCEPT !.delay = delay]
    /\ result' = NoResult
    /\ trace' = <<>>
    /\ cmds' = <<>>
    /\ enter_batch(exists, operation, dry_run, count, delay, auth_ok, FALSE)
    /\ UNCHANGED <<link, flap, suspended, hostDown>>

\* the file has no further line: return (success_count, failure_count); the locals of
\* the loop are gone; main then prints the summary and returns
BatchEnd ==
    /\ pc = "batch_line"
    /\ LET b == [batch EXCEPT !.state = "returned", !.line = <<>>, !.parts = <<>>,
                              !.printed = <<>>, !.result1 = NoResult, !.ep = <<>>,
                              !.api = <<>>]
       IN  batch' = IF req.kind = "batch"
                    THEN [b EXCEPT !.main_return = main_return(batch.failure_count),
                                   !.exit_status =
                                       process_exit_status(main_return(batch.failure_count))]
                    ELSE b
    /\ result' = NoResult
    /\ trace' = <<>>
    /\ cmds' = <<>>
    /\ pc' = "done"
    /\ UNCHANGED <<req, link, flap, suspended, hostDown>>

\* a blank line or a comment
BatchSkip(raw) ==
    /\ pc = "batch_line"
    /\ batch.lineno < MaxLines
    /\ is_skipped(stripped_line(raw))
    /\ batch' = [batch EXCEPT !.lineno = batch.lineno + 1,
                              !.line = stripped_line(raw),
                              !.eligible = batch.eligible + (IF IsRequestLine(raw) THEN 1 ELSE 0)]
    /\ UNCHANGED <<pc, req, link, flap, result, trace, cmds, suspended, hostDown>>

\* a 4-field line, suspend or resume: the link coordinator
BatchLinkLine(raw) ==
    /\ pc = "batch_line"
    /\ batch.lineno < MaxLines
    /\ ~is_skipped(stripped_line(raw))
    /\ LET b == begin_line(batch, raw) IN
       /\ Len(b.parts) = 4
       /\ b.operation \in {"suspend", "resume"}
       /\ batch' = b
       /\ link' = LinkFrame(b.operation, <<b.parts[1], b.parts[2]>>, <<b.parts[3], b.parts[4]>>,
                            b.dry, "batch_result", "batch_except")
    /\ pc' = "link_first"
    /\ result' = NoResult
    /\ trace' = <<>>
    /\ cmds' = <<>>
    /\ UNCHANGED <<req, flap, suspended, hostDown>>

\* a 4-field line, flap: the first side
BatchLinkFlap(raw) ==
    /\ pc = "batch_line"
    /\ batch.lineno < MaxLines
    /\ ~is_skipped(stripped_line(raw))
    /\ LET b == begin_line(batch, raw) IN
       /\ Len(b.parts) = 4
       /\ b.operation = "flap"
       /\ batch' = b
       /\ flap' = FlapFrame("eveng", <<b.parts[1], b.parts[2]>>, b.count, b.delay, b.dry,
                            "batch_flap_second", "batch_except")
    /\ pc' = "flap_loop"
    /\ result' = NoResult
    /\ trace' = <<>>
    /\ cmds' = <<>>
    /\ UNCHANGED <<req, link, suspended, hostDown>>

\* a 4-field line, flap: the second side, whatever the first returned
BatchFlapSecond ==
    /\ pc = "batch_flap_second"
    /\ batch' = [batch EXCEPT !.result1 = result]
    /\ flap' = FlapFrame("eveng", <<batch.parts[3], batch.parts[4]>>, batch.count,
                         batch.delay, batch.dry,
                         "batch_flap_joined", "batch_except")
    /\ pc' = "flap_loop"
    /\ UNCHANGED <<req, link, result, trace, cmds, suspended, hostDown>>

\* result = result1 and result2, with the line's own message
BatchFlapJoin ==
    /\ pc = "batch_flap_joined"
    /\ result' = Returned(batch.result1.success /\ result.success,
                     << Lit("Flapped link between device"), Val(batch.parts[1]),
                        Lit("interface"), Val(batch.parts[2]),
                        Lit("and device"), Val(batch.parts[3]),
                        Lit("interface"), Val(batch.parts[4]) >>)
    /\ pc' = "batch_result"
    /\ UNCHANGED <<req, link, flap, batch, trace, cmds, suspended, hostDown>>

\* a 2-field line: the two lookups, then the operation on the endpoint found
BatchNameLine(raw, nodes_response, interfaces_response) ==
    /\ pc = "batch_line"
    /\ batch.lineno < MaxLines
    /\ ~is_skipped(stripped_line(raw))
    /\ LET b == begin_line(batch, raw) IN
       /\ Len(b.parts) = 2
       /\ LET device_name == b.parts[1]
              interface_name == b.parts[2]
              ep == by_name_lookup(nodes_response, interfaces_response,
                                   device_name, interface_name)
          IN  IF Falsy(ep[Len(ep)]) /\ Len(ep) = 1
              THEN /\ batch' = line_failed([b EXCEPT !.api = <<ApiCall("list_nodes", b.eve_client)>>,
                                                  !.ep = ep],
                                   report_no_device(b.lineno, device_name, b.line))
                   /\ pc' = "batch_next"
                   /\ flap' = flap
              ELSE IF Falsy(ep[Len(ep)])
              THEN /\ batch' = line_failed(
                                   [b EXCEPT !.api = << ApiCall("list_nodes", b.eve_client),
                                ApiCall("get_node_interfaces", b.eve_client) >>,
                                             !.ep = ep],
                                   report_no_interface(b.lineno, interface_name, device_name, b.line))
                   /\ pc' = "batch_next"
                   /\ flap' = flap
              ELSE /\ batch' = [b EXCEPT !.api = << ApiCall("list_nodes", b.eve_client),
                                ApiCall("get_node_interfaces", b.eve_client) >>,
                                         !.ep = ep]
                   /\ IF b.operation = "flap"
                      THEN /\ flap' = FlapFrame("eveng", ep, b.count, b.delay,
                                                b.dry, "batch_result", "batch_except")
                           /\ pc' = "flap_loop"
                      ELSE /\ pc' = "batch_single"
                           /\ flap' = flap
    /\ result' = NoResult
    /\ trace' = <<>>
    /\ cmds' = <<>>
    /\ UNCHANGED <<req, link, suspended, hostDown>>

\* a 2-field line, suspend or resume: the executor on the endpoint found
BatchSingle(out) ==
    /\ pc = "batch_single"
    /\ LET r == eveng_interface(batch.operation, batch.ep, batch.dry, out) IN
       /\ trace' = Append(trace, Transition(batch.operation, batch.ep, batch.dry, r.res))
       /\ cmds' = cmds \o Ran(r.run, out)
       /\ suspended' = unl_wrapper(suspended, r.run, out)
       /\ result' = r.res
       /\ pc' = IF r.res.status = "raised" THEN "batch_except" ELSE "batch_result"
    /\ UNCHANGED <<req, link, flap, batch, hostDown>>

\* a line with another number of fields
BatchInvalid(raw) ==
    /\ pc = "batch_line"
    /\ batch.lineno < MaxLines
    /\ ~is_skipped(stripped_line(raw))
    /\ LET b == begin_line(batch, raw) IN
       /\ Len(b.parts) \notin {2, 4}
       /\ batch' = line_failed(b, report_invalid(b.lineno, Len(b.parts), b.line))
    /\ pc' = "batch_next"
    /\ result' = NoResult
    /\ trace' = <<>>
    /\ cmds' = <<>>
    /\ UNCHANGED <<req, link, flap, suspended, hostDown>>

\* if result: success_count += 1 ... else: failure_count += 1 ...
BatchResult ==
    /\ pc = "batch_result"
    /\ batch' =
           IF result.success
           THEN [ batch EXCEPT
                    !.success_count = batch.success_count + 1,
                    !.printed = Append(batch.printed,
                                    report_success(batch.lineno, result.msg, batch.line)) ]
           ELSE [ batch EXCEPT
                    !.failure_count = batch.failure_count + 1,
                    !.printed = Append(batch.printed,
                                    report_failure(batch.lineno, result.msg, batch.line)) ]
    /\ pc' = "batch_next"
    /\ UNCHANGED <<req, link, flap, result, trace, cmds, suspended, hostDown>>

\* except Exception as e: failure_count += 1 ...
BatchExcept ==
    /\ pc = "batch_except"
    /\ batch' = line_failed(batch, report_error(batch.lineno, result.msg, batch.line))
    /\ pc' = "batch_next"
    /\ UNCHANGED <<req, link, flap, result, trace, cmds, suspended, hostDown>>

\* for i, line in enumerate(lines, 1): the loop goes on to the next line, and the line
\* just reported is behind it
BatchNext ==
    /\ pc = "batch_next"
    /\ batch' = [batch EXCEPT !.line = <<>>, !.parts = <<>>, !.printed = <<>>,
                              !.result1 = NoResult, !.ep = <<>>, !.api = <<>>]
    /\ result' = NoResult
    /\ trace' = <<>>
    /\ cmds' = <<>>
    /\ pc' = "batch_line"
    /\ UNCHANGED <<req, link, flap, suspended, hostDown>>

----------------------------------------------------------------------------
(* suspend_interface_by_name / resume_interface_by_name *)

\* the (device name, interface name) pairs a request by name may give
NameRequests ==
    { <<Split(l, ",")[1], Split(l, ",")[2]>> :
          l \in {NameLine, UnknownDeviceLine, UnknownInterfaceLine} }

\* return False, f"Failed to find device named '{device_name}'"
no_device_message(device_name) ==
    << Lit("Failed to find device named"), Val(device_name) >>

\* return False, f"Failed to find interface named '{interface_name}' on device '{device_name}'"
no_interface_message(interface_name, device_name) ==
    << Lit("Failed to find interface named"), Val(interface_name),
       Lit("on device"), Val(device_name) >>

\* suspend_interface_by_name / resume_interface_by_name: the lookups, then the
\* executor on the endpoint found. targets holds the names, then the ids looked up.
CallInterfaceByName(op, names, dry_run, nodes_response, interfaces_response, out) ==
    /\ pc = "idle"
    /\ LET device_name == names[1]
           interface_name == names[2]
           ep == by_name_lookup(nodes_response, interfaces_response, device_name, interface_name)
       IN  /\ req' = Req("byname", op, dry_run, 0, <<names, ep>>)
           /\ IF Falsy(ep[Len(ep)])
              THEN /\ result' =
                          IF Len(ep) = 1
                          THEN Returned(FALSE, no_device_message(device_name))
                          ELSE Returned(FALSE, no_interface_message(interface_name, device_name))
                   /\ trace' = <<>>
                   /\ cmds' = <<>>
                   /\ suspended' = suspended
              ELSE LET r == eveng_interface(op, ep, dry_run, out) IN
                   /\ trace' = <<Transition(op, ep, dry_run, r.res)>>
                   /\ cmds' = Ran(r.run, out)
                   /\ suspended' = unl_wrapper(suspended, r.run, out)
                   /\ result' = r.res
    /\ pc' = "done"
    /\ UNCHANGED <<link, flap, batch, hostDown>>

----------------------------------------------------------------------------
(* get_interface_id_by_name, called on its own *)

\* the interfaces a provider may list in the ethernet bucket of a device
ListedInterfaces ==
    { [id |-> <<"0">>, name |-> <<"E", "t", "h", "e", "r", "n", "e", "t", "0", "/", "0">>],
      [id |-> <<"1">>, name |-> <<"e", "1", "/", "0">>],
      [id |-> <<"1", "6">>, name |-> <<"e", "0", "/", "1">>],
      [id |-> <<"5">>, name |-> <<"x", "e", "0", "/", "1">>] }

\* the listings of the provider: up to MaxListed of these interfaces, in any order;
\* a device without ethernet interfaces has no ethernet bucket
Listings ==
    UNION { { l \in [1..n -> ListedInterfaces] : \A a, b \in 1..n : a # b => l[a] # l[b] } :
                n \in 0..MaxListed }

\* the other type buckets of the device: none, or a serial bucket of one interface
OtherBuckets ==
    { <<>>,
      << [type |-> "serial", ifs |-> << [id |-> <<"1">>, name |-> <<"s", "0", "/", "1">>] >>] >> }

\* the interface names asked for
RequestedNames ==
    { <<"e", "0", "/", "1">>, <<"E", "0", "/", "1">>, <<"E", "t", "h", "0">>,
      <<"e", "0", "/", "0">>, <<"s", "0", "/", "1">>,
      <<"S", "e", "r", "i", "a", "l", "1">>, <<"x", "e", "0", "/", "1">>, <<>>,
      <<"S", "²", "/", "1">> }

\* get_interface_id_by_name on the interfaces of a device: targets holds the name,
\* the ethernet listing and the other buckets, the result holds the id returned
\* (None for an interface not found)
CallGetInterfaceId(listing, others, interface_name) ==
    /\ pc = "idle"
    /\ LET ethernet == IF listing = <<>> THEN <<>>
                       ELSE <<[type |-> "ethernet", ifs |-> listing]>>
           interfaces_response == ApiSuccess(ethernet \o others)
           if_id == get_interface_id_by_name(interfaces_response, interface_name)
       IN  /\ req' = Req("resolve", "", FALSE, 0, <<interface_name, listing, others>>)
           /\ result' = Returned(~Falsy(if_id), if_id)
    /\ trace' = <<>>
    /\ cmds' = <<>>
    /\ pc' = "done"
    /\ UNCHANGED <<link, flap, batch, suspended, hostDown>>

----------------------------------------------------------------------------
(* get_device_id_by_name, called on its own *)

\* the devices a lab may list; two of them differ in the case of the name only, and
\* one has a name that begins with a letter of Latin-1
ListedNodes ==
    { [id |-> <<"1">>, name |-> <<"R", "1">>],
      [id |-> <<"2">>, name |-> <<"R", "2">>],
      [id |-> <<"3">>, name |-> <<"r", "1">>],
      [id |-> <<"4">>, name |-> <<"é", "1">>] }

\* the answers of list_nodes: up to MaxListed of these devices in any order, a
\* status other than success, or an exception
NodeListings ==
    { ApiSuccess(l) :
          l \in UNION { { l \in [1..n -> ListedNodes] : \A a, b \in 1..n : a # b => l[a] # l[b] } :
                            n \in 0..MaxListed } }
        \cup {ApiFails, ApiRaises}

\* the device names asked for
RequestedDevices == { <<"R", "1">>, <<"r", "1">>, <<"r", "2">>, <<"R", "9">>, <<"É", "1">> }

\* get_device_id_by_name on an answer of list_nodes: targets holds the name and the
\* answer, the result holds the id returned (None for a device not found)
CallGetDeviceId(nodes_response, device_name) ==
    /\ pc = "idle"
    /\ LET device_id == get_device_id_by_name(nodes_response, device_name) IN
       /\ req' = Req("resolve_device", "", FALSE, 0, <<device_name, nodes_response>>)
       /\ result' = Returned(~Falsy(device_id), device_id)
    /\ trace' = <<>>
    /\ cmds' = <<>>
    /\ pc' = "done"
    /\ UNCHANGED <<link, flap, batch, suspended, hostDown>>

----------------------------------------------------------------------------
(* The machine *)

\* The process ends (main returns, or an exception or sys.exit leaves it); the next
\* invocation starts afresh against the lab and the host as they now are.
Exit ==
    /\ pc = "done"
    /\ pc' = "idle"
    /\ req' = NoReq
    /\ link' = NoLink
    /\ flap' = NoFlap
    /\ batch' = NoBatch
    /\ result' = NoResult
    /\ trace' = <<>>
    /\ cmds' = <<>>
    /\ UNCHANGED <<suspended, hostDown>>

Init ==
    /\ pc = "idle"
    /\ req = NoReq
    /\ link = NoLink
    /\ flap = NoFlap
    /\ batch = NoBatch
    /\ result = NoResult
    /\ trace = <<>>
    /\ cmds = <<>>
    /\ suspended = {}
    /\ hostDown = {}

\* the counts and delays given with a batch. --count and --delay are used by flap
\* alone: the other operations are given the default count or one other value. A
\* negative delay ends every flap at its first delay, whatever the count, and is given
\* with the count 1
BatchCounts(operation) == IF operation = "flap" THEN 0..MaxCount ELSE {1, MaxCount}
BatchDelays(operation, count) ==
    IF operation = "flap" /\ count = 1 THEN DelayValues ELSE {DefaultDelay}

Next ==
    \/ \E op \in {"suspend", "resume"}, ep \in Endpoints, dry_run \in BOOLEAN, out \in Outcomes :
           CallInterface(op, ep, dry_run, out)
    \/ \E op \in {"suspend", "resume"}, ep1 \in Endpoints, ep2 \in Endpoints, dry_run \in BOOLEAN :
           CallLink(op, ep1, ep2, dry_run)
    \/ \E out \in Outcomes : LinkFirst(out)
    \/ \E out \in Outcomes : LinkSecond(out)
    \/ \E op \in {"suspend", "resume"}, name \in HostInterfaces, dry_run \in BOOLEAN,
          out \in Outcomes :
           CallHostInterface(op, name, dry_run, out)
    \/ \E command \in {"suspend", "resume", "flap"} : CallWithoutLab(command)
    \/ \E target \in Endpoints, count \in Counts, delay \in DelayValues, dry_run \in BOOLEAN :
           CallFlap("eveng", target, count, delay, dry_run)
    \/ \E name \in HostInterfaces, count \in Counts, delay \in DelayValues, dry_run \in BOOLEAN :
           CallFlap("host", <<name>>, count, delay, dry_run)
    \/ FlapLoop
    \/ \E out \in Outcomes : FlapSuspend(out)
    \/ FlapSleepMid
    \/ \E out \in Outcomes : FlapResume(out)
    \/ FlapSleepBetween
    \/ \E exists \in BOOLEAN, operation \in Operations \cup {"status"}, dry_run \in BOOLEAN,
          auth_ok \in BOOLEAN :
           \E count \in BatchCounts(operation) :
               \E delay \in BatchDelays(operation, count) :
                   CallBatch(exists, operation, dry_run, count, delay, auth_ok)
    \/ \E exists \in BOOLEAN, operation \in {"status"}, dry_run \in BOOLEAN,
          auth_ok \in BOOLEAN :
           CallProcessBatchFile(exists, operation, dry_run, 1, DefaultDelay, auth_ok)
    \/ BatchEnd
    \/ \E raw \in BatchLines : BatchSkip(raw)
    \/ \E raw \in BatchLines : BatchLinkLine(raw)
    \/ \E raw \in BatchLines : BatchLinkFlap(raw)
    \/ BatchFlapSecond
    \/ BatchFlapJoin
    \/ \E raw \in BatchLines, nodes_response \in NodesResponses,
          interfaces_response \in InterfacesResponses :
           BatchNameLine(raw, nodes_response, interfaces_response)
    \/ \E out \in Outcomes : BatchSingle(out)
    \/ \E raw \in BatchLines : BatchInvalid(raw)
    \/ BatchResult
    \/ BatchExcept
    \/ BatchNext
    \/ \E op \in {"suspend", "resume"}, names \in NameRequests, dry_run \in BOOLEAN,
          nodes_response \in NodesResponses, interfaces_response \in InterfacesResponses,
          out \in Outcomes :
           CallInterfaceByName(op, names, dry_run, nodes_response, interfaces_response, out)
    \/ \E listing \in Listings, others \in OtherBuckets, interface_name \in RequestedNames :
           CallGetInterfaceId(listing, others, interface_name)
    \/ \E nodes_response \in NodeListings, device_name \in RequestedDevices :
           CallGetDeviceId(nodes_response, device_name)
    \/ Exit

Spec == Init /\ [][Next]_vars

\* the steps of a request under way: each of them is a statement of the running
\* process, a command that returns or a delay that ends
Steps ==
    \/ \E out \in Outcomes : LinkFirst(out)
    \/ \E out \in Outcomes : LinkSecond(out)
    \/ FlapLoop
    \/ \E out \in Outcomes : FlapSuspend(out)
    \/ FlapSleepMid
    \/ \E out \in Outcomes : FlapResume(out)
    \/ FlapSleepBetween
    \/ BatchEnd
    \/ \E raw \in BatchLines : BatchSkip(raw)
    \/ \E raw \in BatchLines : BatchLinkLine(raw)
    \/ \E raw \in BatchLines : BatchLinkFlap(raw)
    \/ BatchFlapSecond
    \/ BatchFlapJoin
    \/ \E raw \in BatchLines, nodes_response \in NodesResponses,
          interfaces_response \in InterfacesResponses :
           BatchNameLine(raw, nodes_response, interfaces_response)
    \/ \E out \in Outcomes : BatchSingle(out)
    \/ \E raw \in BatchLines : BatchInvalid(raw)
    \/ BatchResult
    \/ BatchExcept
    \/ BatchNext

\* the machine when every external command and every delay returns, so that a
\* process that can take a step does take one
FairSpec == Spec /\ WF_vars(Steps)

----------------------------------------------------------------------------
(* Vocabulary of the properties *)

\* the endpoint transitions of a trace, delays left out
Transitions(tr) == SelectSeq(tr, LAMBDA e : e.ev # "sleep")

\* `sub` occurs in `message` as a contiguous run of fragments
Carries(message, sub) ==
    \E k \in 0..(Len(message) - Len(sub)) :
        \A j \in 1..Len(sub) : message[k + j] = sub[j]

\* the message holds the dry-run marker
HasDryRunMarker(message) == \E k \in 1..Len(message) : message[k] = Lit("DRY RUN")

\* the unl_wrapper action of an operation
ActionOf(op) == IF op = "suspend" THEN "suspendlink" ELSE "resumelink"

\* a link call has ended (returned or raised): called by main, or for a 4-field
\* batch line
LinkFinished ==
    \/ pc = "done" /\ req.kind = "link"
    \/ /\ pc \in {"batch_result", "batch_except"}
       /\ Len(batch.parts) = 4
       /\ batch.operation \in {"suspend", "resume"}

\* the arguments of that link call
LinkCall ==
    IF req.kind = "link"
    THEN [op |-> req.op, ep1 |-> req.targets[1], ep2 |-> req.targets[2]]
    ELSE [op |-> batch.operation, ep1 |-> <<batch.parts[1], batch.parts[2]>>,
          ep2 |-> <<batch.parts[3], batch.parts[4]>>]

\* a flap call on one target has ended (returned or raised): called by main, or for
\* a 2-field batch line
FlapFinished ==
    \/ pc = "done" /\ req.kind \in {"flap", "hostflap"}
    \/ /\ pc \in {"batch_result", "batch_except"}
       /\ Len(batch.parts) = 2
       /\ batch.operation = "flap"

\* the target of that flap call
FlapTarget == IF req.kind = "batch" THEN batch.ep ELSE req.targets[1]

\* every transition of the trace returned success
AllSucceeded(tr) ==
    \A k \in 1..Len(tr) : tr[k].ev # "sleep" => tr[k].res.status = "returned" /\ tr[k].res.success

\* delays right after a suspend (inside a cycle), and right after a resume (between cycles)
MidPairDelays(tr) ==
    Cardinality({k \in 2..Len(tr) : tr[k].ev = "sleep" /\ tr[k - 1].ev = "suspend"})
BetweenPairDelays(tr) ==
    Cardinality({k \in 2..Len(tr) : tr[k].ev = "sleep" /\ tr[k - 1].ev = "resume"})
Delays(tr) == Cardinality({k \in 1..Len(tr) : tr[k].ev = "sleep"})

\* the success messages the executor returns in apply mode
ApplySuccessMessages ==
    { eveng_interface(op, ep, FALSE, [raises |-> FALSE, code |-> 0]).res.msg :
          op \in {"suspend", "resume"}, ep \in Endpoints }

----------------------------------------------------------------------------
(* Properties *)

\* C1: every link request issues exactly two endpoint transitions, endpoint 1 first
\* and endpoint 2 second, whatever the outcome of either, and produces exactly one
\* result derived from the two endpoint results.
C1_LinkTwoTransitionsOneResult ==
    LinkFinished =>
        /\ Len(trace) = 2
        /\ trace[1].ev = LinkCall.op /\ trace[1].target = LinkCall.ep1
        /\ trace[2].ev = LinkCall.op /\ trace[2].target = LinkCall.ep2
        /\ result.status = "returned"
        /\ result.success = (trace[1].res.success /\ trace[2].res.success)

\* C2: if endpoint 1's transition fails, endpoint 2's transition is still attempted
\* (two endpoint calls) and the link result is a failure whose message is endpoint
\* 1's failure message, also when endpoint 2 fails as well.
C2_FirstFailureStillTriesSecond ==
    (LinkFinished /\ Len(trace) >= 1 /\ ~trace[1].res.success) =>
        /\ Len(trace) = 2
        /\ trace[2].target = LinkCall.ep2
        /\ result.status = "returned"
        /\ ~result.success
        /\ Carries(result.msg, trace[1].res.msg)

\* C3: a link result is success iff both endpoint transitions succeed; when endpoint
\* 1 succeeds and endpoint 2 fails the result is a failure carrying endpoint 2's
\* failure message, so a combined result with one message always comes back.
C3_LinkCombinationRule ==
    (LinkFinished /\ Len(trace) = 2) =>
        /\ result.status = "returned"
        /\ result.success = (trace[1].res.success /\ trace[2].res.success)
        /\ (trace[1].res.success /\ ~trace[2].res.success) =>
               (~result.success /\ Carries(result.msg, trace[2].res.msg))

\* C4: in dry-run mode no step of any request (endpoint, link, flap, batch line)
\* invokes the external command, and the link state stays as it was.
C4_DryRunLeavesLabUnchanged ==
    [][ req'.dry => (cmds' = <<>> /\ suspended' = suspended /\ hostDown' = hostDown) ]_vars

\* C5: a dry-run endpoint transition returns success=true with a message that states
\* the action (the command that would run), holds the dry-run marker, and so differs
\* from every apply-mode success message.
C5_DryRunEndpointResult ==
    \A k \in 1..Len(trace) :
        (trace[k].ev \in {"suspend", "resume"} /\ trace[k].dry) =>
            LET r == trace[k].res IN
            /\ r.status = "returned"
            /\ r.success
            /\ HasDryRunMarker(r.msg)
            /\ Carries(r.msg, unl_wrapper_cmd(ActionOf(trace[k].ev),
                                              trace[k].target[1], trace[k].target[2]))
            /\ \A m \in ApplySuccessMessages : ~HasDryRunMarker(m) /\ m # r.msg

\* C5 witness: a dry-run suspend and a dry-run resume have been issued.
C5_Witness ==
    /\ \E k \in 1..Len(trace) : trace[k].ev = "suspend" /\ trace[k].dry
    /\ \E k \in 1..Len(trace) : trace[k].ev = "resume" /\ trace[k].dry

\* C6: in dry-run mode every transition, link-level transitions and batch link-flap
\* lines included, returns success=true with a message holding the dry-run marker.
C6_DryRunResultHasMarker ==
    (req.dry /\ result.status = "returned") =>
        (result.success /\ HasDryRunMarker(result.msg))

\* C7: in apply mode each endpoint transition invokes the external command exactly
\* once, for its own (device, interface) and with the action of its operation; exit
\* status 0 gives success=true, a non-zero exit status gives success=false with an
\* error message.
C7_ApplyRunsCommandOnce ==
    (~req.dry /\ req.kind \in {"interface", "link", "flap", "batch"}) =>
        LET ts == Transitions(trace) IN
        /\ Len(cmds) = Len(ts)
        /\ \A k \in 1..Len(ts) :
               LET c == cmds[k] IN
               /\ c.argv = unl_wrapper_cmd(ActionOf(ts[k].ev), ts[k].target[1], ts[k].target[2])
               /\ (~c.out.raises /\ c.out.code = 0) =>
                      (ts[k].res.status = "returned" /\ ts[k].res.success)
               /\ (~c.out.raises /\ c.out.code # 0) =>
                      /\ ts[k].res.status = "returned"
                      /\ ~ts[k].res.success
                      /\ Carries(ts[k].res.msg, CalledProcessErrorStr(c.argv, c.out.code))

\* C7 witness: an apply-mode resume exited 0 and an apply-mode suspend exited non-zero.
C7_Witness ==
    /\ ~req.dry
    /\ \E k \in 1..Len(cmds) :
           cmds[k].argv[4] = Lit("resumelink") /\ ~cmds[k].out.raises /\ cmds[k].out.code = 0
    /\ \E k \in 1..Len(cmds) :
           cmds[k].argv[4] = Lit("suspendlink") /\ ~cmds[k].out.raises /\ cmds[k].out.code # 0

\* C8: no endpoint transition, and so no link transition or flap, raises past its
\* boundary: every failure of the external command comes back as success=false.
C8_NeverRaises == result.status # "raised"

\* the delay of the request is one the contract of flap allows (delay_seconds >= 0),
\* so that every delay returns
DelaysReturn == req.delay >= 0

\* C9: a flap with count N >= 1 whose steps all succeed performs exactly 2N
\* transitions on its one target, suspend and resume alternating from a suspend, and
\* returns success; so in dry-run mode, where the steps are simulated (nothing runs)
\* and the delays are still taken. The delay is one the contract allows.
C9_FlapTwoNTransitions ==
    (FlapFinished /\ req.count >= 1 /\ DelaysReturn /\ AllSucceeded(trace)) =>
        LET ts == Transitions(trace) IN
        /\ Len(ts) = 2 * req.count
        /\ \A k \in 1..Len(ts) :
               /\ ts[k].ev = (IF k % 2 = 1 THEN "suspend" ELSE "resume")
               /\ ts[k].target = FlapTarget
               /\ ts[k].dry = req.dry
        /\ result.status = "returned"
        /\ result.success
        /\ req.dry => (cmds = <<>> /\ Delays(trace) = 2 * req.count - 1)

\* C10 as stated: a flap with count N whose cycles all succeed takes N-1 delays
\* between the suspend and the resume of a cycle and N delays between cycles.
C10_Original ==
    (FlapFinished /\ req.count >= 1 /\ AllSucceeded(trace) /\ result.success) =>
        /\ MidPairDelays(trace) = req.count - 1
        /\ BetweenPairDelays(trace) = req.count

\* C10 amended: a flap with count N whose cycles all succeed takes N delays between
\* the suspend and the resume of a cycle and N-1 delays between cycles.
C10_FlapDelays ==
    (FlapFinished /\ req.count >= 1 /\ AllSucceeded(trace) /\ result.success) =>
        /\ MidPairDelays(trace) = req.count
        /\ BetweenPairDelays(trace) = req.count - 1
        /\ Delays(trace) = 2 * req.count - 1

\* C10 witness: a flap of two cycles has returned success with a delay between them.
C10_Witness ==
    /\ FlapFinished
    /\ req.count = 2
    /\ AllSucceeded(trace)
    /\ result.success
    /\ BetweenPairDelays(trace) = 1

\* a transition of a trace returned success
Succeeded(e) == e.res.status = "returned" /\ e.res.success

\* C11: in a flap a delay follows every successful suspend, before its resume, and
\* every successful resume but that of the last cycle; nothing follows the resume of
\* the last cycle, the flap returns right after it.
C11_DelayAfterEachStepButLast ==
    (FlapFinished /\ req.count >= 1 /\ DelaysReturn) =>
        /\ \A k \in 1..Len(trace) :
               /\ (trace[k].ev = "suspend" /\ Succeeded(trace[k])) =>
                      /\ k + 2 <= Len(trace)
                      /\ trace[k + 1].ev = "sleep"
                      /\ trace[k + 2].ev = "resume"
               /\ (trace[k].ev = "resume" /\ Succeeded(trace[k])
                       /\ Len(Transitions(SubSeq(trace, 1, k))) < 2 * req.count) =>
                      /\ k + 2 <= Len(trace)
                      /\ trace[k + 1].ev = "sleep"
                      /\ trace[k + 2].ev = "suspend"
               /\ (trace[k].ev = "resume" /\ Succeeded(trace[k])
                       /\ Len(Transitions(SubSeq(trace, 1, k))) = 2 * req.count) =>
                      /\ k = Len(trace)
                      /\ result.status = "returned"
        /\ trace[Len(trace)].ev # "sleep"

\* C11 witness: a flap of two cycles has ended with the successful resume of its
\* second cycle, a delay taken after the resume of the first.
C11_Witness ==
    /\ FlapFinished
    /\ req.count = 2
    /\ Len(trace) = 7
    /\ trace[3].ev = "resume" /\ Succeeded(trace[3]) /\ trace[4].ev = "sleep"
    /\ trace[7].ev = "resume" /\ Succeeded(trace[7])

\* C12: a failing suspend or resume step ends the flap at once: no transition and
\* no delay follows it, the result is a failure carrying the step's failure message
\* also after cycles that succeeded, and 2k-1 transitions were attempted when the
\* suspend of cycle k failed, 2k when its resume failed.
C12_FailingStepAbortsFlap ==
    (FlapFinished /\ req.count >= 1 /\ ~AllSucceeded(trace)) =>
        LET ts == Transitions(trace)
            n == Len(ts)
        IN  /\ \A k \in 1..(n - 1) : Succeeded(ts[k])
            /\ trace[Len(trace)] = ts[n]
            /\ n <= 2 * req.count
            /\ ts[n].ev = (IF n % 2 = 1 THEN "suspend" ELSE "resume")
            /\ result.status = "returned"
            /\ ~result.success
            /\ Carries(result.msg, ts[n].res.msg)

\* the batch loop is running, or has just returned its counts
InBatchLoop == batch.state = "running" \/ (batch.state = "returned" /\ batch.logins = 1)

\* the lines counted so far
Counted(b) == b.success_count + b.failure_count

\* the number of comma-separated fields of a line
FieldCount(line) == 1 + Cardinality({k \in 1..Len(line) : line[k] = ","})

\* C13: over an existing file with a valid operation, success_count + failure_count
\* is the number of lines read that are neither blank nor comments, and so at the
\* end of the run; each such line raises exactly one of the two counters by exactly
\* one, when its outcome is reported, and no counter ever decreases.
C13_CountsMatchRequestLines ==
    [][ /\ (batch'.state = "running" \/ (batch'.state = "returned" /\ batch'.logins = 1)) =>
               Counted(batch') = batch'.eligible
                   - (IF pc' \in {"batch_line", "batch_next", "done"} THEN 0 ELSE 1)
        /\ (batch.state = "running" /\ batch'.state \in {"running", "returned"}) =>
               /\ batch'.success_count >= batch.success_count
               /\ batch'.failure_count >= batch.failure_count
               /\ Counted(batch') - Counted(batch) = (IF pc' = "batch_next" THEN 1 ELSE 0)
      ]_vars

\* C13 witness: a run over two lines, one of them a comment or blank, has returned
\* with the other line counted as a success.
C13_Witness ==
    /\ pc = "done"
    /\ batch.state = "returned"
    /\ batch.lineno = 2
    /\ batch.eligible = 1
    /\ batch.success_count = 1
    /\ batch.failure_count = 0

\* C14: a blank line (after trimming) and a line beginning with '#' are skipped:
\* neither counter changes, no resolver call and no transition call is made, and
\* the loop stays at its head for the next line.
C14_SkippedLines ==
    [][ (batch.state = "running" /\ batch'.lineno = batch.lineno + 1
             /\ batch'.eligible = batch.eligible) =>
            /\ batch'.line = <<>> \/ batch'.line[1] = "#"
            /\ batch'.success_count = batch.success_count
            /\ batch'.failure_count = batch.failure_count
            /\ batch'.api = <<>>
            /\ trace' = <<>>
            /\ cmds' = <<>>
            /\ suspended' = suspended
            /\ pc' = "batch_line"
      ]_vars

\* C14 witness: a comment line was skipped after a line that was counted, and the
\* loop is at its head with the counts as they were.
C14_Witness ==
    /\ pc = "batch_line"
    /\ batch.lineno = 2
    /\ batch.line = <<"#", "x">>
    /\ Counted(batch) = 1
    /\ batch.eligible = 1

\* C15: a line whose number of comma-separated fields is neither 2 nor 4 raises
\* failure_count by one and nothing else, issues no transition call (and no
\* resolver call), and the loop goes on to the next line.
C15_WrongFieldCount ==
    [][ /\ (pc = "batch_line" /\ pc' # "batch_line" /\ pc' # "done"
                /\ FieldCount(batch'.line) \notin {2, 4}) =>
               /\ pc' = "batch_next"
               /\ batch'.failure_count = batch.failure_count + 1
               /\ batch'.success_count = batch.success_count
               /\ batch'.api = <<>>
               /\ trace' = <<>>
               /\ cmds' = <<>>
               /\ suspended' = suspended
               /\ batch'.state = "running"
        /\ pc = "batch_next" =>
               /\ pc' = "batch_line"
               /\ batch'.state = "running"
               /\ batch'.lineno = batch.lineno
               /\ Counted(batch') = Counted(batch)
      ]_vars

\* C15 witness: a 3-field line has been counted as the failure of line 2, after a
\* line that succeeded.
C15_Witness ==
    /\ pc = "batch_next"
    /\ batch.lineno = 2
    /\ FieldCount(batch.line) = 3
    /\ batch.success_count = 1
    /\ batch.failure_count = 1
    /\ trace = <<>>

\* a lookup of the request returned None
NotFound(ep) == \E k \in 1..Len(ep) : ep[k] = None

\* C16: when the device, or the interface on the device found, is not resolved for
\* a request by name, no transition is issued for it and it fails alone: a batch
\* line raises failure_count by one and the loop goes on to the next line, a call
\* by name returns a failure result.
C16_NotFoundFailsRequestOnly ==
    [][ /\ (pc = "batch_line" /\ NotFound(batch'.ep)) =>
               /\ pc' = "batch_next"
               /\ batch'.state = "running"
               /\ batch'.failure_count = batch.failure_count + 1
               /\ batch'.success_count = batch.success_count
               /\ Len(batch'.printed) = 1
               /\ trace' = <<>>
               /\ cmds' = <<>>
               /\ suspended' = suspended
        /\ (pc = "batch_next" /\ NotFound(batch.ep)) =>
               /\ pc' = "batch_line"
               /\ batch'.state = "running"
               /\ Counted(batch') = Counted(batch)
        /\ (req'.kind = "byname" /\ NotFound(req'.targets[2])) =>
               /\ trace' = <<>>
               /\ cmds' = <<>>
               /\ suspended' = suspended
               /\ result'.status = "returned"
               /\ ~result'.success
      ]_vars

\* C16 witness: line 2 of a batch names an interface the device found does not
\* have, and is counted as a failure after a line that succeeded.
C16_Witness ==
    /\ pc = "batch_next"
    /\ batch.lineno = 2
    /\ Len(batch.ep) = 2
    /\ batch.ep[1] # None
    /\ batch.ep[2] = None
    /\ batch.success_count = 1
    /\ batch.failure_count = 1

\* C17: for a flap on a 4-field batch line the whole flap of endpoint 1 runs first
\* and the flap of endpoint 2 after it, also when the flap of endpoint 1 failed; the
\* line is counted as a success iff both flaps succeeded.
C17_LinkFlapBothSides ==
    [][ (pc' = "batch_next" /\ Len(batch'.parts) = 4 /\ batch'.operation = "flap") =>
            LET ts == Transitions(trace')
                ep1 == <<batch'.parts[1], batch'.parts[2]>>
                ep2 == <<batch'.parts[3], batch'.parts[4]>>
                n1 == Cardinality({k \in 1..Len(ts) : ts[k].target = ep1})
            IN  /\ n1 >= 1
                /\ Len(ts) > n1
                /\ \A k \in 1..Len(ts) : ts[k].target = (IF k <= n1 THEN ep1 ELSE ep2)
                /\ n1 = 2 * batch'.count \/ ~Succeeded(ts[n1])
                /\ Len(ts) - n1 = 2 * batch'.count \/ ~Succeeded(ts[Len(ts)])
                /\ (batch'.success_count = batch.success_count + 1)
                       <=> (AllSucceeded(trace') /\ Len(ts) = 4 * batch'.count)
                /\ Counted(batch') = Counted(batch) + 1
      ]_vars

\* the batch command has ended with main returning
BatchReturned == pc = "done" /\ req.kind = "batch" /\ batch.state = "returned"

\* C18: the batch command hands its caller a nonzero indication, the exit status of
\* the process, when failure_count > 0, and zero otherwise.
C18_ExitStatusTellsFailures ==
    BatchReturned => ((batch.exit_status # 0) <=> (batch.failure_count > 0))

\* a call of get_interface_id_by_name has returned: its arguments and the id returned
Resolved == pc = "done" /\ req.kind = "resolve"
ResolvedName == req.targets[1]
ResolvedListing == req.targets[2]

ResolvedOthers == req.targets[3]

\* the interfaces of a type bucket of the device, <<>> for a bucket it does not have
BucketOf(type) ==
    IF type = "ethernet" THEN ResolvedListing
    ELSE IF \E k \in 1..Len(ResolvedOthers) : ResolvedOthers[k].type = type
    THEN ResolvedOthers[CHOOSE k \in 1..Len(ResolvedOthers) : ResolvedOthers[k].type = type].ifs
    ELSE <<>>

\* the type bucket the name resolves to
ResolvedBucket == BucketOf(eve_type_of(interface_type_of(ResolvedName)))

ResolvedId == result.msg

\* the last numeric segment of a requested name
LastSegment(interface_name) == last_part_of(interface_number_of(interface_name))

\* the ids of the listed interfaces that pass each test
IdMatches(listing, interface_name) ==
    { listing[k].id : k \in { h \in 1..Len(listing) :
                                  listing[h].id = LastSegment(interface_name) } }
NameMatches(listing, interface_name) ==
    { listing[k].id : k \in { h \in 1..Len(listing) :
                                  Lower(listing[h].name) = Lower(interface_name) } }
SubstringMatches(listing, interface_name) ==
    { listing[k].id : k \in { h \in 1..Len(listing) :
                                  IsSubstring(Lower(interface_name), Lower(listing[h].name)) } }

\* C19: within the type bucket an interface whose local ID equals the last numeric
\* segment of the name is returned before any that matches by display name only,
\* and an exact (case-insensitive) display-name match before any that matches by
\* substring only, whatever the order of the provider's listing.
C19_TierPriority ==
    Resolved =>
        LET ids == IdMatches(ResolvedBucket, ResolvedName)
            names == NameMatches(ResolvedBucket, ResolvedName)
            subs == SubstringMatches(ResolvedBucket, ResolvedName)
        IN  /\ ids # {} => ResolvedId \in ids
            /\ (ids = {} /\ names # {}) => ResolvedId \in names
            /\ (ids = {} /\ names = {} /\ subs # {}) => ResolvedId \in subs
            /\ (ids = {} /\ names = {} /\ subs = {}) => ResolvedId = None

\* the listing {"0": {"name": "Ethernet0/0"}} and the request "Eth0"
Ethernet00 == [id |-> <<"0">>, name |-> <<"E", "t", "h", "e", "r", "n", "e", "t", "0", "/", "0">>]
Eth0 == <<"E", "t", "h", "0">>
Eth0Requested == Resolved /\ ResolvedListing = <<Ethernet00>> /\ ResolvedName = Eth0

\* C20 as stated: given the ethernet interfaces {"0": {"name": "Ethernet0/0"}},
\* "Eth0" resolves only if it is a substring of the display name, and is not found
\* otherwise.
C20_Original ==
    Eth0Requested =>
        IF IsSubstring(Lower(Eth0), Lower(Ethernet00.name))
        THEN ResolvedId = Ethernet00.id
        ELSE ResolvedId = None

\* C20 amended: given the ethernet interfaces {"0": {"name": "Ethernet0/0"}}, "Eth0"
\* resolves to interface "0" by the local-ID test, its numeric segment "0" being the
\* local ID, although "Eth0" is neither the display name nor a substring of it.
C20_Eth0ResolvesById ==
    Eth0Requested =>
        /\ ResolvedId = <<"0">>
        /\ LastSegment(Eth0) = Ethernet00.id
        /\ Lower(Ethernet00.name) # Lower(Eth0)
        /\ ~IsSubstring(Lower(Eth0), Lower(Ethernet00.name))

\* C20 witness: "Eth0" has been resolved against that listing.
C20_Witness == Eth0Requested /\ result.success

\* a call of get_device_id_by_name has ended: its arguments
DeviceResolved == pc = "done" /\ req.kind = "resolve_device"
DeviceAsked == req.targets[1]
DeviceAnswer == req.targets[2]

\* the positions of the listed devices whose display name is the name asked for,
\* case ignored
DeviceHits(nodes, device_name) ==
    {k \in 1..Len(nodes) : Lower(nodes[k].name) = Lower(device_name)}

\* C21: device resolution returns the ID of the first listed device whose display
\* name equals the name asked for, case ignored; it returns None, and raises
\* nothing, when no name matches or the listing fails.
C21_DeviceResolution ==
    DeviceResolved =>
        /\ result.status = "returned"
        /\ IF DeviceAnswer.raises \/ DeviceAnswer.status # "success"
           THEN result.msg = None
           ELSE LET hits == DeviceHits(DeviceAnswer.data, DeviceAsked) IN
                IF hits = {} THEN result.msg = None
                ELSE \E k \in hits :
                         /\ \A h \in hits : k <= h
                         /\ result.msg = DeviceAnswer.data[k].id

\* C21 witness: "R1" was asked of a lab that lists "r1" before "R1", and the id of
\* "r1" came back.
C21_Witness ==
    /\ DeviceResolved
    /\ DeviceAsked = <<"R", "1">>
    /\ DeviceAnswer.status = "success"
    /\ Len(DeviceAnswer.data) >= 2
    /\ DeviceAnswer.data[1].name = <<"r", "1">>
    /\ DeviceAnswer.data[2].name = <<"R", "1">>
    /\ result.msg = <<"3">>

\* the type tokens of the serial class
SerialTokens == { <<"s">>, <<"s", "e", "r", "i", "a", "l">> }

\* an interface of the listing passes one of the three tests for the name
Matches(entry, interface_name) ==
    \/ entry.id = LastSegment(interface_name)
    \/ Lower(entry.name) = Lower(interface_name)
    \/ IsSubstring(Lower(interface_name), Lower(entry.name))

\* C22: interface resolution searches one type bucket, the serial bucket when the
\* type token of the name is 's' or 'serial' and the ethernet bucket for every other
\* token; the id it returns is of an interface of that bucket, it finds an interface
\* of that bucket that matches, and it returns None when the device has no such
\* bucket.
C22_OneTypeBucket ==
    Resolved =>
        LET bucket == BucketOf(IF interface_type_of(ResolvedName) \in SerialTokens
                               THEN "serial" ELSE "ethernet")
            hits == {k \in 1..Len(bucket) : Matches(bucket[k], ResolvedName)}
        IN  /\ bucket = <<>> => ResolvedId = None
            /\ hits = {} => ResolvedId = None
            /\ hits # {} => \E k \in hits : ResolvedId = bucket[k].id

\* C22 witness: "Serial1" was found in the serial bucket of a device whose ethernet
\* bucket holds an interface of the same id.
C22_Witness ==
    /\ Resolved
    /\ ResolvedName = <<"S", "e", "r", "i", "a", "l", "1">>
    /\ ResolvedOthers # <<>>
    /\ \E k \in 1..Len(ResolvedListing) : ResolvedListing[k].id = <<"1">>
    /\ ResolvedId = <<"1">>

\* the link call is about to run its second side after its first side succeeded
SecondSideAfterSuccess ==
    pc = "link_second" /\ link.r1.status = "returned" /\ link.r1.success

\* C23: no rollback. When the first side of a link call succeeded and the second side
\* fails, the failing step ends the call: the link state stays as the first side left
\* it (endpoint 1 in the new state when the command was applied, endpoint 2 in the old
\* one), no further transition is issued on either endpoint, and the call ends with a
\* failure that carries the second side's message.
C23_NoRollback ==
    [][ (SecondSideAfterSuccess /\ ~Succeeded(trace'[Len(trace')])) =>
            /\ Len(trace') = Len(trace) + 1
            /\ trace'[Len(trace')].target = link.ep2
            /\ suspended' = suspended
            /\ (~link.dry /\ link.ep1 # link.ep2) =>
                   ((link.ep1 \in suspended') <=> (link.op = "suspend"))
            /\ pc' \in {link.ret, link.exc}
            /\ pc' \notin {"link_first", "link_second"}
            /\ ~(result'.status = "returned" /\ result'.success)
            /\ Carries(result'.msg, trace'[Len(trace')].res.msg)
      ]_vars

\* C23 witness: a resume of a link both of whose endpoints were suspended has ended
\* in failure with endpoint 1 resumed and endpoint 2 still suspended.
C23_Witness ==
    /\ pc = "done" /\ req.kind = "link" /\ req.op = "resume"
    /\ Len(trace) = 2
    /\ Succeeded(trace[1]) /\ ~Succeeded(trace[2])
    /\ req.targets[1] \notin suspended
    /\ req.targets[2] \in suspended
    /\ result.status = "returned" /\ ~result.success

\* C24: a batch run logs in once, before its first line, and every resolver call of
\* the run is made on the session of that login; a run whose login fails ends there,
\* with no line read, nothing counted and no transition issued.
C24_OneSessionPerRun ==
    /\ batch.logins <= 1
    /\ batch.state = "running" =>
           /\ batch.logins = 1
           /\ batch.eve_client # NoClient
           /\ \A k \in 1..Len(batch.api) : batch.api[k].cli = batch.eve_client
    /\ (batch.lineno > 0 \/ batch.api # <<>>) => batch.logins = 1 /\ batch.eve_client # NoClient
    /\ batch.state = "exit" =>
           /\ batch.logins = 1
           /\ batch.lineno = 0 /\ Counted(batch) = 0 /\ batch.api = <<>>
           /\ trace = <<>> /\ cmds = <<>>
           /\ pc = "done"

\* C24 witness: the second line of a run resolved its names on the session opened
\* before the first line.
C24_Witness ==
    /\ batch.state = "running" /\ batch.lineno = 2
    /\ Len(batch.api) = 2
    /\ batch.logins = 1
    /\ \A k \in 1..2 : batch.api[k].cli = batch.eve_client

\* the report names line number i and the text of the line
ReportNames(report, i, line) ==
    /\ Len(report) >= 6
    /\ report[1] = Lit("Line") /\ report[2] = Val(IntStr(i)) /\ report[3] = Lit(":")
    /\ report[Len(report) - 2] = Lit("(for")
    /\ report[Len(report) - 1] = Val(line)

\* C25: a batch line that is counted, as a success or as a failure, gets exactly one
\* report, and the report holds the number of the line in the file, counted from 1
\* with blank and comment lines included, and the text of the line; a line not yet
\* counted has no report.
C25_OneReportPerCountedLine ==
    batch.state = "running" =>
        /\ pc = "batch_next" =>
               /\ Len(batch.printed) = 1
               /\ batch.lineno >= 1
               /\ ReportNames(batch.printed[1], batch.lineno, batch.line)
               /\ batch.line # <<>>
        /\ pc # "batch_next" => batch.printed = <<>>

\* C25 witness: the request on line 2, after a comment or blank line, has been
\* counted and reported as line 2.
C25_Witness ==
    /\ batch.state = "running" /\ pc = "batch_next"
    /\ batch.lineno = 2 /\ batch.eligible = 1 /\ Counted(batch) = 1
    /\ batch.printed[1][2] = Val(<<"2">>)
    /\ batch.printed[1][Len(batch.printed[1]) - 1] = Val(LinkLine)

\* C26: an exception raised while a batch line is processed never leaves the loop: it
\* is caught there, the line is counted as one failure (and not as a success) with an
\* error report, and the run goes on with the lines that remain.
C26_LineExceptionsCaught ==
    [][ /\ (req.kind = "batch" /\ result'.status = "raised") =>
               (pc' \in {"batch_except", "batch_next"} /\ batch'.state = "running")
        /\ (pc = "batch_except") =>
               /\ batch'.failure_count = batch.failure_count + 1
               /\ batch'.success_count = batch.success_count
               /\ batch'.printed =
                      <<report_error(batch.lineno, result.msg, batch.line)>>
               /\ batch'.state = "running"
               /\ batch'.lineno = batch.lineno
               /\ pc' = "batch_next"
        /\ (pc = "batch_next" /\ result.status = "raised") =>
               (pc' = "batch_line" /\ batch'.state = "running"
                /\ Counted(batch') = Counted(batch))
      ]_vars

\* C26 witness: the command of line 2 could not be launched, after a line that
\* succeeded; line 2 has been counted as the one failure of the run, with an error
\* report, and the run is still going.
C26_Witness ==
    /\ batch.state = "running" /\ pc = "batch_next"
    /\ batch.lineno = 2
    /\ batch.failure_count = 1 /\ batch.success_count = 1
    /\ result.status = "raised"
    /\ cmds # <<>>
    /\ batch.printed = <<report_error(2, result.msg, batch.line)>>

\* a flap is under way, a batch run is under way
FlapRunning == flap # NoFlap
BatchRunning == batch.state = "running"

\* C27: when every command and every delay returns, a flap and a batch run over a
\* file of at most MaxLines lines terminate; a flap ends only at a step that failed
\* or at the loop head after its last resume, with all its cycles done, and a batch
\* run ends only at the loop head, between lines (the login failure ends it before
\* it runs).
C27_Termination ==
    /\ []<>(~FlapRunning /\ ~BatchRunning)
    /\ [][ /\ (FlapRunning /\ ~FlapRunning' /\ DelaysReturn) =>
                  \/ /\ pc \in {"flap_suspend", "flap_resume"}
                     /\ Len(trace') = Len(trace) + 1
                     /\ ~Succeeded(trace'[Len(trace')])
                  \/ /\ pc = "flap_loop"
                     /\ flap.i >= flap.count
                     /\ trace' = trace
                     /\ result'.status = "returned" /\ result'.success
                     /\ flap.count >= 1 =>
                            /\ flap.i = flap.count
                            /\ trace # <<>>
                            /\ trace[Len(trace)].ev = "resume"
                            /\ trace[Len(trace)].target = flap.target
                            /\ Succeeded(trace[Len(trace)])
           /\ (BatchRunning /\ ~BatchRunning') =>
                  (pc = "batch_line" /\ batch'.state = "returned" /\ pc' = "done")
           /\ (batch'.state = "exit" /\ batch.state # "exit") =>
                  (pc = "idle" /\ batch.state = "none")
      ]_vars

\* C27 witness: a batch run has returned after two lines, the second of them a flap
\* of MaxCount cycles that succeeded.
C27_Witness ==
    /\ pc = "done" /\ req.kind = "batch" /\ batch.state = "returned"
    /\ batch.operation = "flap" /\ batch.count = MaxCount
    /\ batch.lineno = MaxLines
    /\ batch.success_count >= 1

\* a 4-field flap line of a batch run is being processed, in apply mode
InLinkFlap ==
    /\ req.kind = "batch" /\ batch.state = "running"
    /\ Len(batch.parts) = 4 /\ batch.operation = "flap" /\ ~batch.dry

\* the endpoint has had no transition in the trace
Untouched(ep, tr) == \A k \in 1..Len(tr) : tr[k].ev = "sleep" \/ tr[k].target # ep

\* C28: while a 4-field flap line is processed with every step so far successful, and
\* endpoint 2 resumed up to its first transition (as it is when both endpoints start
\* resumed), the two endpoints are never both suspended: every transition of endpoint
\* 1 comes before every transition of endpoint 2, and endpoint 1 is resumed, by its
\* last transition, when endpoint 2 has its first.
C28_LinkFlapNeverBothSuspended ==
    LET ep1 == <<batch.parts[1], batch.parts[2]>>
        ep2 == <<batch.parts[3], batch.parts[4]>>
        ts  == Transitions(trace)
    IN  (/\ InLinkFlap
         /\ AllSucceeded(trace)
         /\ Untouched(ep2, trace) => ep2 \notin suspended) =>
            /\ ~({ep1, ep2} \subseteq suspended)
            /\ \A j, k \in 1..Len(ts) :
                   (j < k /\ ts[j].target = ep2) => ts[k].target = ep2
            /\ ~Untouched(ep2, trace) =>
                   /\ ep1 \notin suspended
                   /\ \E j \in 1..Len(ts) :
                          /\ ts[j].target = ep1 /\ ts[j].ev = "resume"
                          /\ ts[j + 1].target = ep2 /\ ts[j + 1].ev = "suspend"
                          /\ j = 2 * batch.count

\* C28 witness: endpoint 2 has just been suspended in the flap of a link line, all
\* steps successful, after the whole flap of endpoint 1.
C28_Witness ==
    /\ InLinkFlap /\ AllSucceeded(trace)
    /\ batch.count = MaxCount
    /\ Len(Transitions(trace)) = 2 * MaxCount + 1
    /\ <<batch.parts[3], batch.parts[4]>> \in suspended
    /\ <<batch.parts[1], batch.parts[2]>> \notin suspended

\* the target of the flap is suspended in the lab, or down on the host
TargetSuspended ==
    IF req.kind = "hostflap" THEN FlapTarget[1] \in hostDown ELSE FlapTarget \in suspended

\* C29: after a flap of count >= 1 that returned success the last transition of the
\* target is a resume that succeeded, and in apply mode the target is resumed; after
\* a flap ended by a resume that failed, the failed resume is the last entry of the
\* trace, the last transition that succeeded is the suspend before it, the flap did
\* not return success, and in apply mode the target is left suspended.
C29_FlapEndState ==
    (FlapFinished /\ req.count >= 1) =>
        LET ts == Transitions(trace)
            n == Len(ts)
        IN  /\ (result.status = "returned" /\ result.success) =>
                   /\ n >= 2
                   /\ ts[n].ev = "resume" /\ ts[n].target = FlapTarget
                   /\ Succeeded(ts[n])
                   /\ trace[Len(trace)] = ts[n]
                   /\ ~req.dry => ~TargetSuspended
            /\ (n >= 1 /\ ts[n].ev = "resume" /\ ~Succeeded(ts[n])) =>
                   /\ trace[Len(trace)] = ts[n]
                   /\ n >= 2
                   /\ ts[n - 1].ev = "suspend" /\ ts[n - 1].target = FlapTarget
                   /\ Succeeded(ts[n - 1])
                   /\ Cardinality({k \in 1..n : ts[k].ev = "resume" /\ ~Succeeded(ts[k])}) = 1
                   /\ ~(result.status = "returned" /\ result.success)
                   /\ ~req.dry => TargetSuspended

\* C29 witness: the resume of the second cycle of a flap failed; the flap has ended
\* in failure and the target, resumed after the first cycle, is suspended.
C29_Witness ==
    /\ FlapFinished /\ req.count = 2 /\ ~req.dry
    /\ Len(Transitions(trace)) = 4
    /\ Succeeded(Transitions(trace)[2])
    /\ ~Succeeded(trace[Len(trace)])
    /\ result.status = "returned" /\ ~result.success
    /\ TargetSuspended

\* C30: a flap called with count 0 or a negative count issues no transition, takes
\* no delay, runs no command and returns success.
C30_NoCycleFlap ==
    (FlapFinished /\ req.count <= 0) =>
        /\ trace = <<>>
        /\ cmds = <<>>
        /\ result.status = "returned"
        /\ result.success
        /\ result = flap_success(IF req.kind = "hostflap" THEN "host" ELSE "eveng",
                                 FlapTarget, req.count, req.delay, req.dry)

\* C30 witness: an apply-mode flap with a negative count has returned on a lab that
\* holds its target suspended.
C30_Witness ==
    /\ FlapFinished /\ req.kind = "flap" /\ req.count < 0 /\ ~req.dry
    /\ FlapTarget \in suspended
    /\ result.status = "returned" /\ result.success

\* the batch command was given a file that exists
BatchFileExists == req.targets[1]

\* process_batch_file was called: by itself, or by main, which calls it for the
\* operations its parser accepts
ProcessBatchFileCalled ==
    \/ req.kind = "process_batch_file"
    \/ req.kind = "batch" /\ req.op \in {"suspend", "resume", "flap"}

\* C31: when the batch file does not exist, or the operation is not suspend, resume
\* or flap, process_batch_file returns (0, 0) at once: no login, no line read, no
\* name resolved, no transition and no command.
C31_RejectedBatchDoesNothing ==
    (ProcessBatchFileCalled
         /\ (~BatchFileExists \/ req.op \notin {"suspend", "resume", "flap"})) =>
        /\ pc = "done"
        /\ batch.state = "returned"
        /\ batch.success_count = 0 /\ batch.failure_count = 0
        /\ batch.logins = 0 /\ batch.eve_client = NoClient
        /\ batch.lineno = 0 /\ batch.api = <<>> /\ batch.printed = <<>>
        /\ trace = <<>> /\ cmds = <<>>

\* C31 witness: a batch command with a valid operation on a file that does not exist
\* has returned, on a lab that holds a suspended endpoint.
C31_Witness ==
    /\ req.kind = "batch" /\ ~BatchFileExists /\ req.op = "suspend" /\ ~req.dry
    /\ batch.state = "returned"
    /\ suspended # {}

\* a 2-field batch line whose interface field is empty has been counted
EmptyInterfaceLineCounted ==
    /\ batch.state = "running" /\ pc = "batch_next"
    /\ Len(batch.parts) = 2 /\ batch.parts[2] = <<>>

\* C32: get_interface_id_by_name returns None for an empty interface name, and a
\* 2-field batch line whose interface field is empty is counted as a failure of the
\* line with no transition issued.
C32_EmptyInterfaceNameNotFound ==
    /\ (Resolved /\ ResolvedName = <<>>) => ResolvedId = None
    /\ EmptyInterfaceLineCounted =>
           /\ trace = <<>> /\ cmds = <<>>
           /\ Counted(batch) = batch.eligible
           /\ ~(result.status = "returned" /\ result.success)
           /\ \E k \in 1..Len(batch.printed[1]) :
                  batch.printed[1][k] = Lit("Failed to find interface named")

====
